---------------------------- MODULE Spec2Model ----------------------------
(***************************************************************************)
(* Model of romshark/localize: the gettext `.po`/`.pot` codec (package     *)
(* gettext) and the catalog synchronization of cmd/localize                *)
(* (updateTranslationCatalogs, updateComments).                            *)
(*                                                                         *)
(* Text is modelled at the granularity the codec works at:                 *)
(*   - a string is a sequence of atoms (words); the atom "\n" is a line    *)
(*     break inside a string, " " a space, ":" a colon;                    *)
(*   - a file is a sequence of physical lines; a line is a record          *)
(*       [k, obs, t, idx, v]                                               *)
(*     k   : "blank" | "com" | "dir" | "lit" | "raw"                       *)
(*     obs : number of leading `#~ ` prefixes                              *)
(*     t   : comment type (k = "com") or directive type (k = "dir")        *)
(*     idx : the N of msgstr[N]                                            *)
(*     v   : the text of the comment / the unquoted string literal         *)
(***************************************************************************)
EXTENDS Integers, Sequences, FiniteSets, TLC

(***************************************************************************)
(* Generic helpers                                                         *)
(***************************************************************************)
Range(s) == {s[i] : i \in 1..Len(s)}

RECURSIVE Concat(_)
Concat(ss) == IF ss = <<>> THEN <<>> ELSE Head(ss) \o Concat(Tail(ss))

RECURSIVE SetToSeqs(_)
\* all orderings of a finite set, as sequences
SetToSeqs(S) ==
    IF S = {} THEN {<<>>}
    ELSE UNION {{<<e>> \o s : s \in SetToSeqs(S \ {e})} : e \in S}

Drop(s, n) == SubSeq(s, n + 1, Len(s))
Take(s, n) == SubSeq(s, 1, n)

(***************************************************************************)
(* gettext data model (gettext.go)                                         *)
(***************************************************************************)
CommentTypeTranslator == 1
CommentTypeExtracted == 2
CommentTypeReference == 3
CommentTypeFlag == 4

directiveTypeMsgctxt == 1
directiveTypeMsgid == 2
directiveTypeMsgidPlural == 3
directiveTypeMsgstr == 4
directiveTypeMsgstrIndexed == 5

Comment(type, value) == [Type |-> type, Value |-> value]
ZeroComment == Comment(0, <<>>)

\* Msgctxt / Msgid / MsgidPlural / Msgstr: Span (0: zero length), Comments, Text
Slot(span, comments, lines) == [Span |-> span, Comments |-> comments, Lines |-> lines]
ZeroSlot == Slot(0, <<>>, <<>>)

ZeroMessage ==
    [Obsolete |-> FALSE, Span |-> 0,
     Msgctxt |-> ZeroSlot, Msgid |-> ZeroSlot, MsgidPlural |-> ZeroSlot,
     Msgstr |-> ZeroSlot, MsgstrN |-> [i \in 0..5 |-> ZeroSlot]]

\* StringLiterals.String(): the lines concatenated
String(lines) == Concat(lines)

ZeroHead ==
    [HeadComments |-> <<>>,
     ProjectIdVersion |-> <<>>, ReportMsgidBugsTo |-> <<>>,
     POTCreationDate |-> <<>>, PORevisionDate |-> <<>>,
     LastTranslator |-> <<>>, LanguageTeam |-> <<>>,
     Language |-> <<>>,
     MIMEVersion |-> <<>>, ContentType |-> <<>>,
     ContentTransferEncoding |-> <<>>,
     PluralForms |-> [N |-> 0, Expression |-> <<>>],
     NonStandard |-> <<>>]

File(head, list) == [Head |-> head, List |-> list]

\* FmtCodeRef: "%s:%d"
FmtCodeRef(file, line) == <<file, ":", ToString(line)>>

(***************************************************************************)
(* Physical lines                                                          *)
(***************************************************************************)
Line(k, obs, t, idx, v) == [k |-> k, obs |-> obs, t |-> t, idx |-> idx, v |-> v]
BlankLine == Line("blank", 0, 0, 0, <<>>)
ComLine(obs, t, v) == Line("com", obs, t, 0, v)
DirLine(obs, t, idx, v) == Line("dir", obs, t, idx, v)
LitLine(obs, v) == Line("lit", obs, 0, 0, v)


(***************************************************************************)
(* Encoder (encoder.go).  A `#~ ` written without a following line break   *)
(* stays in front of whatever is written next: `carry` counts them.        *)
(***************************************************************************)
RECURSIVE SplitLines(_)
\* the lines printLines writes for s: cut at each "\n"; nothing for ""
SplitLines(s) ==
    IF s = <<>> THEN <<>>
    ELSE LET nl == {i \in 1..Len(s) : s[i] = "\n"}
         IN  IF nl = {} THEN <<s>>
             ELSE LET i == CHOOSE j \in nl : \A k \in nl : j <= k
                  IN  <<Take(s, i - 1)>> \o SplitLines(Drop(s, i))

\* printLines(w, prefix, s): one comment line of type t per line of s; the
\* first line written carries the pending `#~ ` prefixes
commentLines(t, ls, carry) ==
    [out |-> [i \in 1..Len(ls) |-> ComLine(IF i = 1 THEN carry ELSE 0, t, ls[i])],
     carry |-> IF ls = <<>> THEN carry ELSE 0]

printLines(t, s, carry) == commentLines(t, SplitLines(s), carry)

\* one iteration of the loop of encodeComments
\* the pending `#~ ` prefixes after the one an obsolete message writes
\* before each comment and each directive
obsoletePrefix(obsolete, carry) == IF obsolete THEN carry + 1 ELSE carry

encodeComment(c, obsolete, carry) ==
    IF c.Type \notin {CommentTypeExtracted, CommentTypeReference, CommentTypeFlag}
       /\ c.Value = <<>>
    THEN [out |-> <<ComLine(obsoletePrefix(obsolete, carry), CommentTypeTranslator, <<>>)>>,
          carry |-> 0]
    ELSE printLines(IF c.Type \in {CommentTypeExtracted, CommentTypeReference,
                                   CommentTypeFlag}
                    THEN c.Type
                    ELSE CommentTypeTranslator, \* everything else is a translator comment
                    c.Value, obsoletePrefix(obsolete, carry))

\* the lines written so far followed by the lines b of the comments after
encodeCommentsJoin(out, b) == [out |-> out \o b.out, carry |-> b.carry]

RECURSIVE encodeCommentsFrom(_, _, _)
\* the loop of encodeComments from the comment Head(cs) on; a is what the
\* comments before it wrote
encodeCommentsNext(cs, obsolete, a) ==
    encodeCommentsJoin(a.out, encodeCommentsFrom(cs, obsolete, a.carry))

encodeCommentsFrom(cs, obsolete, carry) ==
    IF cs = <<>> THEN [out |-> <<>>, carry |-> carry]
    ELSE encodeCommentsNext(Tail(cs), obsolete, encodeComment(Head(cs), obsolete, carry))

encodeComments(cs, obsolete) == encodeCommentsFrom(cs, obsolete, 0)

\* the directive line and the string literals of printDirective; cm is what
\* encodeComments wrote for the comments of the directive
printDirectiveLines(t, idx, obsolete, lines, cm) ==
    cm.out \o
    (IF Len(lines) = 1
     THEN <<DirLine(obsoletePrefix(obsolete, cm.carry), t, idx, lines[1])>>
     ELSE <<DirLine(obsoletePrefix(obsolete, cm.carry), t, idx, <<>>)>> \o
          [i \in 1..Len(lines) |-> LitLine(IF obsolete THEN 1 ELSE 0, lines[i])])

printDirective(t, idx, obsolete, slot) ==
    IF Len(slot.Lines) < 1 THEN <<>>   \* nothing to write
    ELSE printDirectiveLines(t, idx, obsolete, slot.Lines,
                             encodeComments(slot.Comments, obsolete))

\* "Key: value\n" as the text of one header string literal
HeaderText(name, value) == <<name, ":", " ">> \o value \o <<"\n">>

HeaderLine(name, value) == <<LitLine(0, HeaderText(name, value))>>

OptHeaderLine(name, value) == IF value # <<>> THEN HeaderLine(name, value) ELSE <<>>

\* the text fmt writes for the Plural-Forms value with the verb %s: the
\* struct HeaderPluralForms has no String method, so its fields are written
\* in braces, the uint8 N as a bad verb
FmtPluralForms(pf) ==
    <<"{%!s(uint8=", ToString(pf.N), ")", " ">> \o pf.Expression \o <<"}">>

RECURSIVE encodeNonStandard(_)
encodeNonStandard(hs) ==
    IF hs = <<>> THEN <<>>
    ELSE HeaderLine(Head(hs).Name, Head(hs).Value) \o encodeNonStandard(Tail(hs))

\* the header block, pluralForms being the text of the Plural-Forms value
headLines(h, pluralForms) ==
    encodeComments(h.HeadComments, FALSE).out
    \o <<DirLine(0, directiveTypeMsgid, 0, <<>>), DirLine(0, directiveTypeMsgstr, 0, <<>>)>>
    \o OptHeaderLine("Project-Id-Version", h.ProjectIdVersion)
    \o OptHeaderLine("Report-Msgid-Bugs-To", h.ReportMsgidBugsTo)
    \o OptHeaderLine("POT-Creation-Date", h.POTCreationDate)
    \o OptHeaderLine("PO-Revision-Date", h.PORevisionDate)
    \o OptHeaderLine("Last-Translator", h.LastTranslator)
    \o OptHeaderLine("Language-Team", h.LanguageTeam)
    \o OptHeaderLine("Language", h.Language)
    \o HeaderLine("MIME-Version", h.MIMEVersion)
    \o HeaderLine("Content-Type", h.ContentType)
    \o HeaderLine("Content-Transfer-Encoding", h.ContentTransferEncoding)
    \o HeaderLine("Plural-Forms", pluralForms)
    \o encodeNonStandard(h.NonStandard)
    \o <<BlankLine>>

encodeHead(h) == headLines(h, FmtPluralForms(h.PluralForms))

encodeMessage(m) ==
    printDirective(directiveTypeMsgctxt, 0, m.Obsolete, m.Msgctxt)
    \o printDirective(directiveTypeMsgid, 0, m.Obsolete, m.Msgid)
    \o printDirective(directiveTypeMsgidPlural, 0, m.Obsolete, m.MsgidPlural)
    \o printDirective(directiveTypeMsgstr, 0, m.Obsolete, m.Msgstr)
    \o printDirective(directiveTypeMsgstrIndexed, 0, m.Obsolete, m.MsgstrN[0])
    \o printDirective(directiveTypeMsgstrIndexed, 1, m.Obsolete, m.MsgstrN[1])
    \o printDirective(directiveTypeMsgstrIndexed, 2, m.Obsolete, m.MsgstrN[2])
    \o printDirective(directiveTypeMsgstrIndexed, 3, m.Obsolete, m.MsgstrN[3])
    \o printDirective(directiveTypeMsgstrIndexed, 4, m.Obsolete, m.MsgstrN[4])
    \o printDirective(directiveTypeMsgstrIndexed, 5, m.Obsolete, m.MsgstrN[5])

RECURSIVE encodeMessages(_, _, _)
encodeMessages(list, i, template) ==
    IF i > Len(list) THEN <<>>
    ELSE (IF template /\ list[i].Obsolete
          THEN <<>>    \* obsolete messages are not encoded in .pot files
          ELSE encodeMessage(list[i])
               \o (IF i + 1 <= Len(list) THEN <<BlankLine>> ELSE <<>>))
         \o encodeMessages(list, i + 1, template)

encode(f, template) == encodeHead(f.Head) \o encodeMessages(f.List, 1, template)

EncodePO(f) == encode(f, FALSE)
EncodePOT(f) == encode(f, TRUE)

(***************************************************************************)
(* Decoder (Decoder.decode and the readers it uses).                       *)
(* The reader state is the input that is still unread: a sequence of       *)
(* lines whose first line may be partly consumed (a `#~ ` prefix stripped, *)
(* or a `#` read so that unparseable text remains: k = "raw").             *)
(* An error is [Expected, Err]; Err = "" with Expected = "" is nil.        *)
(***************************************************************************)
Error(expected, err) == [Expected |-> expected, Err |-> err]
NoErr == Error("", "")
ErrEOF == Error("", "EOF")                      \* io.EOF
errEndOfMessage == Error("", "end of message")
ErrPanic == Error("", "panic")

\* the number of bytes of a line, as far as Peek(4) tells them apart
ByteLen(l) ==
    IF l.k = "blank" THEN 1
    ELSE IF l.k = "com" /\ l.obs = 0 /\ l.t = CommentTypeTranslator /\ l.v = <<>> THEN 2
    ELSE 4

RECURSIVE CanPeek(_, _)
\* reader.Peek(n) succeeds: at least n bytes are left
CanPeek(r, n) ==
    IF n <= 0 THEN TRUE
    ELSE IF r = <<>> THEN FALSE
    ELSE CanPeek(Tail(r), n - ByteLen(Head(r)))

\* the unread input starts with `#~`
StartsObsolete(r) == r # <<>> /\ Head(r).obs >= 1

\* the unread input starts with `#`
StartsHash(r) == r # <<>> /\ (Head(r).obs >= 1 \/ Head(r).k = "com")

\* readPrefixObsolete succeeded: one `#~ ` is gone from the first line
StripObsolete(r) == <<[Head(r) EXCEPT !.obs = @ - 1]>> \o Tail(r)

RawLine == Line("raw", 0, 0, 0, <<>>)

RECURSIVE readOptionalWhitespace(_)
\* skips blank lines; the EOF it may return is passed on by decode only
readOptionalWhitespace(r) ==
    IF r # <<>> /\ Head(r).k = "blank" THEN readOptionalWhitespace(Tail(r)) ELSE r

\* readComment: [c, r, err]; c.Type = 0 when no comment was read
readComment(r) ==
    IF r = <<>> THEN [c |-> ZeroComment, r |-> r, err |-> ErrEOF]
    ELSE LET h == Head(r)
         IN  IF ~StartsHash(r)
             THEN [c |-> ZeroComment, r |-> r, err |-> NoErr]   \* not a comment
             ELSE IF h.obs >= 1 \/ h.k # "com"
             THEN \* `#` followed by an unknown byte: the `#` is consumed
                  [c |-> ZeroComment, r |-> <<RawLine>> \o Tail(r), err |-> NoErr]
             ELSE IF h.t = 0
             THEN \* `#|`: the line is read, and the next line as the value
                  IF Tail(r) = <<>>
                  THEN [c |-> ZeroComment, r |-> <<>>, err |-> ErrEOF]
                  ELSE [c |-> ZeroComment, r |-> Tail(Tail(r)), err |-> NoErr]
             ELSE [c |-> Comment(h.t, h.v), r |-> Tail(r), err |-> NoErr]

RECURSIVE readCommentsLoop(_, _, _)
\* the loop of readComments after readComment returned c
readCommentsNext(l, c, obsolete) ==
    IF c.err # NoErr THEN [cs |-> l, r |-> c.r, err |-> c.err]
    ELSE IF c.c.Type = 0 THEN [cs |-> l, r |-> c.r, err |-> NoErr]
    ELSE readCommentsLoop(Append(l, c.c), c.r, obsolete)

readCommentsLoop(l, r, obsolete) ==
    IF ~CanPeek(r, 4) THEN [cs |-> <<>>, r |-> r, err |-> ErrEOF]
    ELSE IF obsolete /\ ~(Head(r).obs >= 2 \/ (Head(r).obs = 1 /\ Head(r).k = "com"))
    THEN [cs |-> l, r |-> r, err |-> NoErr]   \* not a comment on an obsolete message
    ELSE IF ~obsolete /\ StartsObsolete(r)
    THEN [cs |-> <<>>, r |-> r, err |-> errEndOfMessage]
    ELSE readCommentsNext(l, readComment(IF obsolete THEN StripObsolete(r) ELSE r),
                          obsolete)

readComments(r, obsolete) == readCommentsLoop(<<>>, r, obsolete)

directive(span, comments, text, type, index) ==
    [Span |-> span, comments |-> comments, text |-> text,
     directiveType |-> type, pluralFormIndex |-> index]
ZeroDirective == directive(0, <<>>, <<>>, 0, 0)

RECURSIVE readStringLiteralsLoop(_, _)
\* the loop of readStringLiterals on a non-obsolete message
readStringLiteralsLoop(lines, r) ==
    IF r = <<>> THEN [lines |-> lines, r |-> r, err |-> ErrEOF]
    ELSE IF ~(Head(r).k = "lit" /\ Head(r).obs = 0)
    THEN [lines |-> lines, r |-> r, err |-> NoErr]
    ELSE readStringLiteralsLoop(Append(lines, Head(r).v), Tail(r))

readStringLiterals(r, obsolete) ==
    IF obsolete
    THEN \* readPrefixObsolete finds `"` where it wants `#`
         [lines |-> <<>>, r |-> r, err |-> Error("#", "")]
    ELSE readStringLiteralsLoop(<<>>, r)

\* the directive readDirective returns once readStringLiterals returned ls
readDirectiveText(comments, h, ls) ==
    IF ls.err # NoErr
    THEN [dir |-> directive(0, comments, <<>>, h.t, h.idx), r |-> ls.r, err |-> ls.err]
    ELSE [dir |-> directive(1, comments, ls.lines, h.t, h.idx), r |-> ls.r,
          err |-> NoErr]

\* the part of readDirective after the comments and the obsolete prefix
readDirectiveBody(comments, r, obsolete) ==
    IF r = <<>> \/ Head(r).k # "dir" \/ Head(r).obs # 0
    THEN [dir |-> ZeroDirective, r |-> r, err |-> errEndOfMessage]
    ELSE IF Head(r).v # <<>>
    THEN [dir |-> directive(1, comments, <<Head(r).v>>, Head(r).t, Head(r).idx),
          r |-> Tail(r), err |-> NoErr]
    ELSE IF Tail(r) = <<>> \/ ~(Head(Tail(r)).k = "lit" /\ Head(Tail(r)).obs = 0)
    THEN \* empty string; dir.Span is not set on this path
         [dir |-> directive(0, comments, <<<<>>>>, Head(r).t, Head(r).idx),
          r |-> Tail(r), err |-> NoErr]
    ELSE readDirectiveText(comments, Head(r), readStringLiterals(Tail(r), obsolete))

\* readDirective once readComments returned cm
readDirectiveAfterComments(cm, obsolete) ==
    IF cm.err # NoErr THEN [dir |-> ZeroDirective, r |-> cm.r, err |-> cm.err]
    ELSE IF ~obsolete THEN readDirectiveBody(cm.cs, cm.r, FALSE)
    ELSE IF cm.r = <<>> THEN [dir |-> ZeroDirective, r |-> cm.r, err |-> ErrEOF]
    ELSE IF ~StartsHash(cm.r)
    THEN [dir |-> ZeroDirective, r |-> cm.r, err |-> errEndOfMessage]
    ELSE IF Head(cm.r).obs = 0
    THEN \* `#` not followed by `~`
         [dir |-> ZeroDirective, r |-> <<RawLine>> \o Tail(cm.r),
          err |-> Error("~", "")]
    ELSE readDirectiveBody(cm.cs, StripObsolete(cm.r), TRUE)

\* readDirective: [dir, r, err]
readDirective(r, obsolete) ==
    readDirectiveAfterComments(readComments(r, obsolete), obsolete)

(***************************************************************************)
(* readMessage.  st = [m, r, pending, previous, prevIdx].                  *)
(***************************************************************************)
\* the deferred function of readMessage: what errEndOfMessage and io.EOF
\* become, given the previous directive
messageError(err, previous) ==
    IF err = errEndOfMessage
    THEN CASE previous = 0 -> Error("msgctxt or msgid", "")
           [] previous = directiveTypeMsgctxt -> Error("msgid", "")
           [] previous = directiveTypeMsgid -> Error("msgid_plural or msgstr", "")
           [] previous = directiveTypeMsgidPlural -> Error("msgstr", "")
           [] OTHER -> NoErr
    ELSE IF err = ErrEOF
    THEN CASE previous = 0 -> Error("msgctxt or msgid", "unexpected EOF")
           [] previous = directiveTypeMsgctxt -> Error("msgid", "unexpected EOF")
           [] previous = directiveTypeMsgid ->
                Error("msgid_plural or msgstr", "unexpected EOF")
           [] previous = directiveTypeMsgidPlural -> Error("msgstr", "unexpected EOF")
           [] OTHER -> NoErr
    ELSE err

checkMsgstrIndexedAgainstPrevious(currentIndex, previousIndex) ==
    IF currentIndex # previousIndex + 1
    THEN CASE previousIndex = 0 -> Error("msgstr[1]", "")
           [] previousIndex = 1 -> Error("msgstr[2]", "")
           [] previousIndex = 2 -> Error("msgstr[3]", "")
           [] previousIndex = 3 -> Error("msgstr[4]", "")
           [] previousIndex = 4 -> Error("msgstr[5]", "")
           [] previousIndex = 5 -> Error("msgctxt or msgid", "")
           [] OTHER -> NoErr
    ELSE NoErr

dirSlot(dir) == Slot(dir.Span, dir.comments, dir.text)

\* the switch of readMessage on one directive:
\* [m, err, stop, pending]; stop = TRUE when readMessage returns
applyDirective(m, dir, previous, prevIdx) ==
    LET ret(e) == [m |-> m, err |-> e, stop |-> TRUE, pending |-> ZeroDirective]
        go(mm) == [m |-> mm, err |-> NoErr, stop |-> FALSE, pending |-> ZeroDirective]
        next == [m |-> m, err |-> NoErr, stop |-> TRUE, pending |-> dir]
        t == dir.directiveType
    IN  CASE t = directiveTypeMsgctxt ->
               (CASE previous = 0 -> go([m EXCEPT !.Msgctxt = dirSlot(dir)])
                  [] previous = directiveTypeMsgctxt -> ret(Error("msgid", ""))
                  [] previous = directiveTypeMsgid ->
                       ret(Error("msgstr or msgid_plural", ""))
                  [] previous = directiveTypeMsgidPlural -> ret(Error("msgstr[0]", ""))
                  [] OTHER -> next)
          [] t = directiveTypeMsgid ->
               (CASE previous \in {0, directiveTypeMsgctxt} ->
                       go([m EXCEPT !.Msgid = dirSlot(dir)])
                  [] previous = directiveTypeMsgidPlural -> ret(Error("msgstr[0]", ""))
                  [] previous \in {directiveTypeMsgstr, directiveTypeMsgstrIndexed} ->
                       next
                  [] OTHER -> go(m))     \* msgid after msgid: no case matches
          [] t = directiveTypeMsgidPlural ->
               (IF previous = directiveTypeMsgid
                THEN go([m EXCEPT !.MsgidPlural = dirSlot(dir)])
                ELSE ret(Error("msgid", "")))
          [] t = directiveTypeMsgstr ->
               (IF previous = directiveTypeMsgid
                THEN go([m EXCEPT !.Msgstr = dirSlot(dir)])
                ELSE ret(Error("msgid", "")))
          [] OTHER ->  \* directiveTypeMsgstrIndexed
               (CASE previous \in {0, directiveTypeMsgctxt, directiveTypeMsgid,
                                   directiveTypeMsgstr} ->
                       ret(Error("msgid_plural", ""))
                  [] previous = directiveTypeMsgidPlural ->
                       IF dir.pluralFormIndex # 0 THEN ret(Error("msgstr[0]", ""))
                       ELSE go([m EXCEPT !.MsgstrN[0] = dirSlot(dir)])
                  [] OTHER ->
                       IF dir.pluralFormIndex = 0 THEN ret(Error("msgid_plural", ""))
                       ELSE IF dir.pluralFormIndex > 5 THEN ret(ErrPanic)
                       ELSE LET e == checkMsgstrIndexedAgainstPrevious(
                                         dir.pluralFormIndex, prevIdx)
                            IN  IF e # NoErr THEN ret(e)
                                ELSE go([m EXCEPT !.MsgstrN[dir.pluralFormIndex] =
                                                     dirSlot(dir)]))

RECURSIVE readMessageLoop(_, _, _, _, _)
\* readMessage returns the error e through its deferred function
readMessageFail(m, r, pending, e, previous) ==
    [m |-> m, r |-> r, pending |-> pending, err |-> messageError(e, previous)]

\* the loop of readMessage after the switch on the directive rd.dir gave a
readMessageNext(rd, a) ==
    IF a.stop
    THEN [m |-> a.m, r |-> rd.r, pending |-> a.pending, err |-> a.err]
    ELSE readMessageLoop(a.m, rd.r, ZeroDirective, rd.dir.directiveType,
                         rd.dir.pluralFormIndex)

\* the loop of readMessage once the directive rd is at hand
readMessageStep(m, pending, previous, prevIdx, rd) ==
    IF rd.err # NoErr THEN readMessageFail(m, rd.r, pending, rd.err, previous)
    ELSE readMessageNext(rd, applyDirective(m, rd.dir, previous, prevIdx))

readMessageLoop(m, r, pending, previous, prevIdx) ==
    IF m.Obsolete /\ r = <<>> THEN readMessageFail(m, r, pending, ErrEOF, previous)
    ELSE IF m.Obsolete /\ ~StartsObsolete(r)
    THEN readMessageFail(m, r, pending, errEndOfMessage, previous)
    ELSE readMessageStep(m, pending, previous, prevIdx,
                         IF pending.directiveType = 0
                         THEN readDirective(readOptionalWhitespace(r), m.Obsolete)
                         ELSE [dir |-> pending, r |-> readOptionalWhitespace(r),
                               err |-> NoErr])

\* readMessage: [m, r, pending, err]
readMessage(r, pending) ==
    readMessageLoop([ZeroMessage EXCEPT !.Obsolete = StartsObsolete(r)],
                    r, pending, 0, 0)

(***************************************************************************)
(* parseHead                                                               *)
(***************************************************************************)
RECURSIVE TrimLeft(_)
TrimLeft(s) == IF s # <<>> /\ Head(s) \in {" ", "\t"} THEN TrimLeft(Tail(s)) ELSE s

RECURSIVE TrimRight(_)
TrimRight(s) ==
    IF s # <<>> /\ s[Len(s)] \in {" ", "\t"} THEN TrimRight(Take(s, Len(s) - 1)) ELSE s

TrimSpace(s) == TrimLeft(TrimRight(s))

\* splitHeader: name up to the first colon, value trimmed
splitHeader(s) ==
    LET cs == {i \in 1..Len(s) : s[i] = ":"}
    IN  IF cs = {} THEN [name |-> <<>>, value |-> <<>>]
        ELSE LET i == CHOOSE j \in cs : \A k \in cs : j <= k
             IN  [name |-> Take(s, i - 1), value |-> TrimSpace(Drop(s, i))]

\* the locale tags language.Parse accepts (it rejects the empty string)
LocaleTags == {"de", "pl", "tlh"}
LanguageParses(value) == Len(value) = 1 /\ value[1] \in LocaleTags

Digits == {"0", "1", "2", "3", "4", "5", "6"}
\* strconv.ParseUint on one digit
ParseUint(d) == CHOOSE n \in 0..9 : ToString(n) = d

\* parsePluralFormsHeader: nplurals\s*=\s*(\d+)\s*;\s*plural\s*=\s*([^;]+)\s*;
parsePluralFormsHeader(value) ==
    LET v == SelectSeq(value, LAMBDA a : a # " ")
        at == {i \in 1..(Len(v) - 5) :
                 /\ v[i] = "nplurals=" /\ v[i + 1] \in Digits /\ v[i + 2] = ";"
                 /\ v[i + 3] = "plural=" /\ v[i + 4] # ";" /\ v[i + 5] = ";"}
    IN  IF at = {}
        THEN [pf |-> ZeroHead.PluralForms,
              err |-> Error("", "malformed Plural-Forms header")]
        ELSE LET i == CHOOSE j \in at : \A k \in at : j <= k
             IN  [pf |-> [N |-> ParseUint(v[i + 1]), Expression |-> <<v[i + 4]>>],
                  err |-> NoErr]

XNames == {"X-Generator", "X-Source"}

\* the switch of parseHead on one header: [h, err]
setHeader(h, name, value, template) ==
    LET ok(hh) == [h |-> hh, err |-> NoErr]
        bad(hh, e) == [h |-> hh, err |-> Error("", e)]
    IN  CASE name = <<"Project-Id-Version">> -> ok([h EXCEPT !.ProjectIdVersion = value])
          [] name = <<"Report-Msgid-Bugs-To">> -> ok([h EXCEPT !.ReportMsgidBugsTo = value])
          [] name = <<"POT-Creation-Date">> -> ok([h EXCEPT !.POTCreationDate = value])
          [] name = <<"PO-Revision-Date">> -> ok([h EXCEPT !.PORevisionDate = value])
          [] name = <<"Last-Translator">> -> ok([h EXCEPT !.LastTranslator = value])
          [] name = <<"Language-Team">> -> ok([h EXCEPT !.LanguageTeam = value])
          [] name = <<"Language">> ->
               LET hh == [h EXCEPT !.Language = value]
               IN  IF template /\ value # <<>>
                   THEN bad(hh, "header Language must be kept empty in .pot file")
                   ELSE IF ~LanguageParses(value)
                   THEN bad(hh, "malformed Language header, must be BCP 47")
                   ELSE ok(hh)
          [] name = <<"MIME-Version">> ->
               LET hh == [h EXCEPT !.MIMEVersion = value]
               IN  IF value # <<"1.0">> THEN bad(hh, "unsupported MIME-Version")
                   ELSE ok(hh)
          [] name = <<"Content-Type">> ->
               LET hh == [h EXCEPT !.ContentType = value]
               IN  IF value = <<>> THEN bad(hh, "malformed Content-Type header")
                   ELSE IF value # <<"text/plain; charset=UTF-8">>
                   THEN bad(hh, "unsupported Content-Type")
                   ELSE ok(hh)
          [] name = <<"Content-Transfer-Encoding">> ->
               LET hh == [h EXCEPT !.ContentTransferEncoding = value]
               IN  IF value # <<"8bit">>
                   THEN bad(hh, "unsupported Content-Transfer-Encoding")
                   ELSE ok(hh)
          [] name = <<"Plural-Forms">> ->
               LET p == parsePluralFormsHeader(value)
               IN  IF p.err # NoErr THEN [h |-> h, err |-> p.err]
                   ELSE ok([h EXCEPT !.PluralForms = p.pf])
          [] OTHER ->
               IF Len(name) = 1 /\ name[1] \in XNames
               THEN IF \E i \in 1..Len(h.NonStandard) : h.NonStandard[i].Name = name[1]
                    THEN bad(h, "duplicate header")
                    ELSE ok([h EXCEPT !.NonStandard =
                                Append(@, [Name |-> name[1], Value |-> value])])
               ELSE bad(h, "unsupported header")

RECURSIVE parseHeaders(_, _, _, _)
\* the loop of parseHead after the switch on the header kv gave s
parseHeadersNext(s, kv, headers, byName, template) ==
    IF s.err # NoErr THEN s
    ELSE parseHeaders(s.h, headers, byName \cup {kv.name}, template)

\* parseHeader without checkHeaderDuplicate
parseHeaderUnchecked(h, kv, headers, byName, template) ==
    parseHeadersNext(setHeader(h, kv.name, kv.value, template), kv, headers,
                     byName, template)

\* the loop of parseHead on the header kv, the lines headers still to come
parseHeader(h, kv, headers, byName, template) ==
    IF kv.name \in byName    \* checkHeaderDuplicate
    THEN [h |-> h, err |-> Error("", "duplicate header")]
    ELSE parseHeadersNext(setHeader(h, kv.name, kv.value, template), kv, headers,
                          byName, template)

\* the loop of parseHead over the header lines
parseHeaders(h, headers, byName, template) ==
    IF headers = <<>> THEN [h |-> h, err |-> NoErr]
    ELSE IF Head(headers) = <<>> THEN parseHeaders(h, Tail(headers), byName, template)
    ELSE parseHeader(h, splitHeader(Head(headers)), Tail(headers), byName, template)

\* the head parseHead returns once all headers are parsed
parseHeadResult(m, p) ==
    IF p.err # NoErr THEN p
    ELSE [h |-> [p.h EXCEPT !.HeadComments = m.Msgid.Comments], err |-> NoErr]

\* parseHead: [h, err]
parseHead(m, template) ==
    IF m.Msgctxt.Span # 0 \/ m.MsgidPlural.Span # 0
       \/ \E i \in 0..5 : m.MsgstrN[i].Span # 0
    THEN [h |-> ZeroHead, err |-> Error("", "found unexpected token")]
    ELSE IF String(m.Msgid.Lines) # <<>>
    THEN [h |-> ZeroHead, err |-> Error("empty msgid", "")]
    ELSE IF Len(m.Msgstr.Lines) < 1
    THEN [h |-> ZeroHead, err |-> Error("msgstr with headers", "")]
    ELSE parseHeadResult(m, parseHeaders(ZeroHead, SplitLines(String(m.Msgstr.Lines)),
                                         {}, template))

(***************************************************************************)
(* decode                                                                  *)
(***************************************************************************)
\* the error decode returns for a directive still pending at the end
pendingError(pending) ==
    CASE pending.directiveType = 0 -> NoErr
      [] pending.directiveType = directiveTypeMsgctxt -> Error("msgid", "")
      [] pending.directiveType = directiveTypeMsgid ->
           Error("msgid_plural or msgstr", "")
      [] pending.directiveType = directiveTypeMsgidPlural -> Error("msgstr[0]", "")
      [] pending.directiveType = directiveTypeMsgstr -> Error("msgid or mstctxt", "")
      [] OTHER ->
           IF pending.pluralFormIndex < 5
           THEN Error("msgstr[" \o ToString(pending.pluralFormIndex + 1) \o "]", "")
           ELSE Error("msgid or mstctxt", "")

NoFile == File(ZeroHead, <<>>)

RECURSIVE decodeLoop(_, _, _, _)
\* the message loop of decode after readMessage returned rm
decodeNext(head, list, rm) ==
    IF rm.err # NoErr THEN [f |-> NoFile, err |-> rm.err]
    ELSE decodeLoop(head, Append(list, rm.m), rm.r, rm.pending)

\* the message loop of decode on the input r1, the whitespace skipped
decodeMessage(head, list, r1, pending) ==
    IF r1 = <<>>
    THEN IF pendingError(pending) # NoErr
         THEN [f |-> NoFile, err |-> pendingError(pending)]
         ELSE [f |-> File(head, list), err |-> NoErr]
    ELSE decodeNext(head, list, readMessage(r1, pending))

\* the message loop of decode
decodeLoop(head, list, r, pending) ==
    decodeMessage(head, list, readOptionalWhitespace(r), pending)

\* decode after parseHead returned ph for the head message mh
decodeMessages(mh, ph) ==
    IF ph.err # NoErr THEN [f |-> NoFile, err |-> ph.err]
    ELSE decodeLoop(ph.h, <<>>, mh.r, mh.pending)

\* decode after readMessage returned the head message mh
decodeHead(mh, template) ==
    IF mh.err # NoErr THEN [f |-> NoFile, err |-> mh.err]
    ELSE decodeMessages(mh, parseHead(mh.m, template))

\* decode: [f, err]
decode(x, template) == decodeHead(readMessage(x, ZeroDirective), template)

DecodePO(x) == decode(x, FALSE)
DecodePOT(x) == decode(x, TRUE)

(***************************************************************************)
(* MakePOT (gettext.go)                                                    *)
(***************************************************************************)
\* resetMsgstr that takes the text away from a slot that is blank already
resetMsgstrDrop(slot) ==
    IF Len(slot.Lines) > 0 /\ slot.Lines # <<<<>>>> THEN [slot EXCEPT !.Lines = <<<<>>>>]
    ELSE [slot EXCEPT !.Lines = <<>>]

\* resetMsgstr that leaves the text as it is
resetMsgstrKeep(slot) == slot

\* resetMsgstr: the text becomes one empty literal if there was any text
resetMsgstr(slot) ==
    IF Len(slot.Lines) > 0 THEN [slot EXCEPT !.Lines = <<<<>>>>]
    ELSE [slot EXCEPT !.Lines = <<>>]

MakePOT(f) ==
    File([f.Head EXCEPT !.Language = <<>>, !.LastTranslator = <<>>,
                        !.PORevisionDate = <<>>, !.LanguageTeam = <<>>],
         [i \in 1..Len(f.List) |->
            IF f.List[i].Obsolete THEN f.List[i]
            ELSE [f.List[i] EXCEPT !.Msgstr = resetMsgstr(@),
                                   !.MsgstrN = [k \in 0..5 |-> resetMsgstr(@[k])]]])

(***************************************************************************)
(* codeparser: the messages extracted from the source code, and the        *)
(* plural forms of a locale                                                *)
(***************************************************************************)
FuncTypeText == "Text"
FuncTypeBlock == "Block"
FuncTypePlural == "Plural"
FuncTypePluralBlock == "PluralBlock"

\* codeparser.Msg, the key of Collection.Messages
Msg(hash, description, one, few, other, funcType) ==
    [Hash |-> hash, Description |-> description, Zero |-> <<>>, One |-> one,
     Two |-> <<>>, Few |-> few, Many |-> <<>>, Other |-> other, FuncType |-> funcType]

\* messageHash: the 64 bit hash, in hex, of the text followed by the
\* description; a table over the texts the model uses
messageHash(text, description) ==
    LET s == text \o description
    IN  CASE s = <<"a">> -> <<"h1">>
          [] s = <<"b", "d">> -> <<"h2">>
          [] s = <<"p">> -> <<"h3">>
          [] OTHER -> <<"h0">>

\* token.Position
Position(file, line, column) == [Filename |-> file, Line |-> line, Column |-> column]

\* Hash < Hash, the comparison of Collection.Ordered
HashLess(a, b) ==
    LET rank(h) == CASE h = <<"h0">> -> 0 [] h = <<"h1">> -> 1
                     [] h = <<"h2">> -> 2 [] OTHER -> 3
    IN  rank(a) < rank(b)

CLDRPluralFormOne == "One"
CLDRPluralFormFew == "Few"
CLDRPluralFormOther == "Other"

\* cldr.ByTagOrBase: [ok, forms]; German has one/other, Polish one/few/other,
\* Klingon has no plural rules
ByTagOrBase(l) ==
    CASE l = "de" ->
           [ok |-> TRUE,
            forms |-> [CardinalForms |-> <<CLDRPluralFormOne, CLDRPluralFormOther>>]]
      [] l = "pl" ->
           [ok |-> TRUE,
            forms |-> [CardinalForms |-> <<CLDRPluralFormOne, CLDRPluralFormFew,
                                           CLDRPluralFormOther>>]]
      [] OTHER -> [ok |-> FALSE, forms |-> [CardinalForms |-> <<>>]]

\* the text MsgFromGettextMessage puts into the slot of one plural form
formText(msg, f) ==
    CASE f = CLDRPluralFormOne -> msg.One
      [] f = CLDRPluralFormFew -> msg.Few
      [] OTHER -> msg.Other

MsgFromGettextMessage(pluralForms, msg, meta) ==
    LET refs == [i \in 1..Len(meta.Pos) |->
                   Comment(CommentTypeReference,
                           FmtCodeRef(meta.Pos[i].Filename, meta.Pos[i].Line))]
        comments == refs \o (IF msg.Description # <<>>
                             THEN <<Comment(CommentTypeExtracted, msg.Description)>>
                             ELSE <<>>)
        gm == [ZeroMessage EXCEPT !.Msgctxt = Slot(0, comments, <<msg.Hash>>)]
        cf == pluralForms.CardinalForms
    IN  IF msg.FuncType \in {FuncTypePlural, FuncTypePluralBlock}
        THEN [gm EXCEPT !.Msgid = Slot(0, <<>>, <<msg.One>>),
                        !.MsgidPlural = Slot(0, <<>>, <<msg.Other>>),
                        !.MsgstrN = [i \in 0..5 |->
                                       IF i + 1 <= Len(cf)
                                       THEN Slot(0, <<>>, <<formText(msg, cf[i + 1])>>)
                                       ELSE ZeroSlot]]
        ELSE [gm EXCEPT !.Msgid = Slot(0, <<>>, <<msg.Other>>),
                        !.Msgstr = Slot(0, <<>>, <<msg.Other>>)]

(***************************************************************************)
(* updateTranslationCatalogs and updateComments (cmd/localize)             *)
(***************************************************************************)
\* a translation slot of a new entry: blank if it has text
blankMsgstr(slot) ==
    IF Len(slot.Lines) > 0 THEN [slot EXCEPT !.Lines = <<<<>>>>] ELSE slot

\* the entry appended for an extracted message that is not in the catalog
newCatalogMessage(pluralForms, msg, meta) ==
    LET nm == MsgFromGettextMessage(pluralForms, msg, meta)
    IN  [nm EXCEPT !.Msgstr = blankMsgstr(@),
                   !.MsgstrN = [k \in 0..5 |-> blankMsgstr(@[k])]]

\* append on a full slice doubles the capacity
NewCap(old) == IF old = 0 THEN 1 ELSE 2 * old

RECURSIVE GrowCap(_, _)
\* the capacity of a slice filled by n appends
GrowCap(cap, n) == IF cap >= n THEN cap ELSE GrowCap(NewCap(cap), n)

\* slices.SortFunc by comment type: insertion sort, which is stable
sortComments(cs) ==
    Concat([t \in 1..5 |-> SelectSeq(cs, LAMBDA c : c.Type = t - 1)])

\* indexOfPos(comment) # -1
indexOfPosFound(pos, comment) ==
    \E i \in 1..Len(pos) : FmtCodeRef(pos[i].Filename, pos[i].Line) = comment

\* indexOfComment(formatted) # -1, on the n comments in arr
indexOfCommentFound(arr, n, formatted) ==
    \E i \in 1..n : arr[i].Type = CommentTypeReference /\ arr[i].Value = formatted

\* slices.Delete(s, ci, ci+1) on the array arr holding the n elements of s:
\* the tail moves down and the freed element is zeroed
DeleteAt(arr, n, ci) ==
    SubSeq(arr, 1, ci - 1) \o SubSeq(arr, ci + 1, n) \o <<ZeroComment>>
    \o SubSeq(arr, n + 1, Len(arr))

RECURSIVE ZeroComments(_)
\* the unused elements of a new array
ZeroComments(k) == IF k <= 0 THEN <<>> ELSE <<ZeroComment>> \o ZeroComments(k - 1)

(***************************************************************************)
(* The Msgctxt comments of a catalog entry as Go holds them.  `dst` is the *)
(* Message inCatalog points to: its comment slice has the n elements at    *)
(* the front of the array arr.  Once append has moved Messages.List to a   *)
(* new array, the entry in the list is a copy of dst made at that moment:  *)
(* its slice keeps ln elements, on the array dst had then, which is arr    *)
(* while `aliased` and larr after dst's slice was moved by an append.      *)
(***************************************************************************)
Ent(arr, n) == [arr |-> arr, n |-> n, larr |-> <<>>, ln |-> 0, aliased |-> TRUE]

\* the comment slice of a decoded Msgctxt, built by append
EntOf(comments) ==
    Ent(comments \o ZeroComments(GrowCap(0, Len(comments)) - Len(comments)),
        Len(comments))

\* the Msgctxt comments of the entry in Messages.List
LiveComments(e, moved) ==
    IF ~moved THEN Take(e.arr, e.n)
    ELSE Take(IF e.aliased THEN e.arr ELSE e.larr, e.ln)

RECURSIVE removeStale(_, _, _, _)
\* the first loop of updateComments, from index ci on: the range was fixed
\* at n0 elements when the loop started, the elements are read as they are
\* now
removeStale(e, ci, n0, pos) ==
    IF ci > n0 THEN e
    ELSE IF e.arr[ci].Type = CommentTypeReference
            /\ ~indexOfPosFound(pos, e.arr[ci].Value)
    THEN removeStale([e EXCEPT !.arr = DeleteAt(e.arr, e.n, ci), !.n = e.n - 1],
                     ci + 1, n0, pos)
    ELSE removeStale(e, ci + 1, n0, pos)

\* append(dst.Msgctxt.Comments.Text, c)
appendComment(e, c, moved) ==
    IF e.n < Len(e.arr)
    THEN [e EXCEPT !.arr = Take(e.arr, e.n) \o <<c>> \o Drop(e.arr, e.n + 1),
                   !.n = e.n + 1]
    ELSE [e EXCEPT !.arr = Take(e.arr, e.n) \o <<c>>
                           \o ZeroComments(NewCap(Len(e.arr)) - e.n - 1),
                   !.n = e.n + 1,
                   !.larr = IF moved /\ e.aliased THEN e.arr ELSE e.larr,
                   !.aliased = IF moved THEN FALSE ELSE e.aliased]

RECURSIVE addMissing(_, _, _, _)
\* the second loop of updateComments, from position i on
addMissing(e, i, pos, moved) ==
    IF i > Len(pos) THEN e
    ELSE LET formatted == FmtCodeRef(pos[i].Filename, pos[i].Line)
         IN  IF indexOfCommentFound(e.arr, e.n, formatted)
             THEN addMissing(e, i + 1, pos, moved)
             ELSE addMissing(appendComment(e, Comment(CommentTypeReference, formatted),
                                           moved),
                             i + 1, pos, moved)

\* sortCommentsByType on dst.Msgctxt: the n elements are sorted in place
sortMsgctxt(e) ==
    [e EXCEPT !.arr = sortComments(Take(e.arr, e.n)) \o Drop(e.arr, e.n)]

\* updateComments on the Msgctxt comments of dst
updateComments(e, meta, moved) ==
    sortMsgctxt(addMissing(removeStale(e, 1, e.n, meta.Pos), 1, meta.Pos, moved))

\* sortCommentsByType on the other directives of the entry
sortCommentsByType(m) ==
    [m EXCEPT !.Msgid.Comments = sortComments(@),
              !.MsgidPlural.Comments = sortComments(@),
              !.Msgstr.Comments = sortComments(@),
              !.MsgstrN = [k \in 0..5 |-> [@[k] EXCEPT !.Comments = sortComments(@)]]]

\* the hashes of the extracted messages: the keys of collMsgsByHash
CollHashes(coll) == {m.Hash : m \in DOMAIN coll}

RECURSIVE markObsoleteFrom(_, _, _, _)
\* the loop over b.Messages.List, from index i on: [list, inCatalog]
markObsoleteFrom(list, i, hashes, inCatalog) ==
    IF i > Len(list) THEN [list |-> list, inCatalog |-> inCatalog]
    ELSE LET msgctxt == String(list[i].Msgctxt.Lines)
             known == [h \in DOMAIN inCatalog \cup {msgctxt} |->
                         IF h = msgctxt THEN i ELSE inCatalog[h]]
         IN  IF msgctxt \notin hashes /\ list[i].Obsolete
             THEN markObsoleteFrom(list, i + 1, hashes, inCatalog)
             ELSE IF msgctxt \notin hashes
             THEN markObsoleteFrom([list EXCEPT ![i].Obsolete = TRUE],
                                   i + 1, hashes, known)
             ELSE markObsoleteFrom(list, i + 1, hashes, known)

\* a variant of the loop that removes the entries it should mark
markObsoleteDrop(list, hashes) ==
    markObsoleteFrom(SelectSeq(list, LAMBDA m :
                                 String(m.Msgctxt.Lines) \in hashes \/ m.Obsolete),
                     1, hashes, [h \in {} |-> 0])

\* a variant of the loop that does not look at the extracted messages
markObsoleteAll(list, hashes) == markObsoleteFrom(list, 1, {}, [h \in {} |-> 0])

markObsolete(list, hashes) == markObsoleteFrom(list, 1, hashes, [h \in {} |-> 0])

\* a variant of beginLocale that looks up the plural forms after the loop
beginLocaleMarkFirst(l, list, hashes) ==
    [ok |-> ByTagOrBase(l).ok, list |-> markObsolete(list, hashes).list,
     inCatalog |-> markObsolete(list, hashes).inCatalog]

\* the start of the loop body of updateTranslationCatalogs for locale l:
\* [ok, list, inCatalog]
beginLocale(l, list, hashes) ==
    IF ~ByTagOrBase(l).ok
    THEN [ok |-> FALSE, list |-> list, inCatalog |-> [h \in {} |-> 0]]
    ELSE [ok |-> TRUE, list |-> markObsolete(list, hashes).list,
          inCatalog |-> markObsolete(list, hashes).inCatalog]

(***************************************************************************)
(* State                                                                   *)
(***************************************************************************)
VARIABLES
    collection,  \* Collection.Messages: Msg -> positions
    disk,        \* the catalog files of the bundle: locale -> lines
    diskStart,   \* the catalog files when the current run started
    bundle,      \* Bundle.Catalogs after ParseBundle: locale -> File
    before,      \* the catalogs as ParseBundle decoded them in this run
    pc,          \* "parse" | "locales" | "merge" | "done" | "failed"
    cur,         \* the locale of the current iteration over bundle.Catalogs
    todoL,       \* the locales the iteration has not reached yet
    todoM,       \* the extracted messages the inner iteration has not reached
    heap,        \* the slices behind bundle[cur]: [cap, moved, ents, inCatalog]
    opened,      \* the catalog files opened with O_TRUNC in this run
    run,         \* the number of the current run of `localize generate`
    errMsg,      \* the error the run failed with
    codec        \* a decode/encode pipeline on one input

vars == <<collection, disk, diskStart, bundle, before, pc, cur, todoL, todoM,
          heap, opened, run, errMsg, codec>>

syncVars == <<collection, disk, diskStart, bundle, before, pc, cur, todoL, todoM,
              heap, opened, run, errMsg>>

MaxRuns == 2
MaxMsgs == 2
MaxEntries == 2

NoHeap == [cap |-> 0, moved |-> FALSE, ents |-> <<>>, inCatalog |-> [h \in {} |-> 0]]
NoBundle == [l \in {} |-> NoFile]
CodecIdle == [mode |-> "idle"]

ErrPluralForms == "couldn't find plural forms for locale"
ErrDecodingPO == "decoding .po file"

(***************************************************************************)
(* The runs of `localize generate`                                         *)
(***************************************************************************)
\* ParseBundle: every catalog.<locale>.po of the bundle is decoded
ParseBundle ==
    /\ pc = "parse"
    /\ LET dec == [l \in DOMAIN disk |-> DecodePO(disk[l])]
       IN  IF \E l \in DOMAIN disk : dec[l].err # NoErr
           THEN /\ pc' = "failed"
                /\ errMsg' = ErrDecodingPO
                /\ UNCHANGED <<bundle, before, todoL>>
           ELSE /\ bundle' = [l \in DOMAIN disk |-> dec[l].f]
                /\ before' = bundle'
                /\ todoL' = DOMAIN disk
                /\ pc' = "locales"
                /\ UNCHANGED errMsg
    /\ opened' = {}
    /\ UNCHANGED <<collection, disk, diskStart, cur, todoM, heap, run, codec>>

\* updateTranslationCatalogs: the iteration over bundle.Catalogs reaches l
\* (a map: any order); plural forms are looked up, entries whose hash is
\* not extracted any more become obsolete, inCatalog is built
BeginLocale(l) ==
    /\ pc = "locales"
    /\ l \in todoL
    /\ LET r == beginLocale(l, bundle[l].List, CollHashes(collection))
       IN  /\ bundle' = [bundle EXCEPT ![l].List = r.list]
           /\ IF ~r.ok
              THEN /\ pc' = "failed"
                   /\ errMsg' = ErrPluralForms
                   /\ UNCHANGED <<heap, todoM>>
              ELSE /\ pc' = "merge"
                   /\ heap' = [cap |-> GrowCap(0, Len(r.list)),
                               moved |-> FALSE,
                               ents |-> [i \in 1..Len(r.list) |->
                                           EntOf(r.list[i].Msgctxt.Comments)],
                               inCatalog |-> r.inCatalog]
                   /\ todoM' = DOMAIN collection
                   /\ UNCHANGED errMsg
    /\ cur' = l
    /\ todoL' = todoL \ {l}
    /\ UNCHANGED <<collection, disk, diskStart, before, opened, run, codec>>

\* the iteration over collection.Messages reaches a message that is not in
\* the catalog: a new entry is appended to b.Messages.List
AddMessage(m) ==
    /\ pc = "merge"
    /\ m \in todoM
    /\ m.Hash \notin DOMAIN heap.inCatalog
    /\ LET nm == newCatalogMessage(ByTagOrBase(cur).forms, m, [Pos |-> collection[m]])
           full == Len(bundle[cur].List) = heap.cap
       IN  /\ bundle' = [bundle EXCEPT ![cur].List = Append(@, nm)]
           /\ heap' = IF ~full THEN heap
                      ELSE [heap EXCEPT
                              !.cap = NewCap(@),
                              !.moved = TRUE,
                              !.ents = IF heap.moved THEN heap.ents
                                       ELSE [i \in 1..Len(heap.ents) |->
                                               [heap.ents[i] EXCEPT
                                                  !.ln = heap.ents[i].n,
                                                  !.aliased = TRUE]]]
    /\ todoM' = todoM \ {m}
    /\ UNCHANGED <<collection, disk, diskStart, before, pc, cur, todoL, opened,
                   run, errMsg, codec>>

\* the iteration over collection.Messages reaches a message that is in the
\* catalog: updateComments on the Message inCatalog points to
UpdateMessage(m) ==
    /\ pc = "merge"
    /\ m \in todoM
    /\ m.Hash \in DOMAIN heap.inCatalog
    /\ LET i == heap.inCatalog[m.Hash]
           e == updateComments(heap.ents[i], [Pos |-> collection[m]], heap.moved)
       IN  /\ heap' = [heap EXCEPT !.ents[i] = e]
           /\ bundle' = [bundle EXCEPT ![cur].List[i] =
                           [sortCommentsByType(@) EXCEPT
                              !.Msgctxt.Comments = LiveComments(e, heap.moved)]]
    /\ todoM' = todoM \ {m}
    /\ UNCHANGED <<collection, disk, diskStart, before, pc, cur, todoL, opened,
                   run, errMsg, codec>>

\* every extracted message was handled: the catalog file is truncated and
\* the File is encoded into it; after the last locale the run is over
WriteCatalog ==
    /\ pc = "merge"
    /\ todoM = {}
    /\ disk' = [disk EXCEPT ![cur] = EncodePO(bundle[cur])]
    /\ opened' = opened \cup {cur}
    /\ pc' = IF todoL = {} THEN "done" ELSE "locales"
    /\ UNCHANGED <<collection, diskStart, bundle, before, cur, todoL, todoM, heap,
                   run, errMsg, codec>>

\* `localize generate` is run again on the same source code
NextRun ==
    /\ pc = "done"
    /\ run < MaxRuns
    /\ run' = run + 1
    /\ diskStart' = disk
    /\ pc' = "parse"
    /\ UNCHANGED <<collection, disk, bundle, before, cur, todoL, todoM, heap,
                   opened, errMsg, codec>>

(***************************************************************************)
(* Inputs: the extracted messages and the catalogs found in the bundle     *)
(***************************************************************************)
MsgA == Msg(messageHash(<<"a">>, <<>>), <<>>, <<>>, <<>>, <<"a">>, FuncTypeText)
MsgABlock == [MsgA EXCEPT !.FuncType = FuncTypeBlock]
MsgB == Msg(messageHash(<<"b">>, <<"d">>), <<"d">>, <<>>, <<>>, <<"b">>, FuncTypeText)
MsgP == Msg(messageHash(<<"p">>, <<>>), <<>>, <<"o">>, <<"w">>, <<"p">>, FuncTypePlural)

Msgs == {MsgA, MsgABlock, MsgB, MsgP}

Pos(line) == Position("f.go", line, 1)

\* the positions a message may have been found at
PosOptions(m) ==
    CASE m = MsgA -> {<<Pos(1)>>, <<Pos(1), Pos(2)>>}
      [] m = MsgABlock -> {<<Pos(3)>>}
      [] m = MsgB -> {<<Pos(1)>>}
      [] OTHER -> {<<Pos(1), Pos(2), Pos(3)>>}

Collections ==
    UNION {{c \in [S -> UNION {PosOptions(m) : m \in S}] :
              \A m \in S : c[m] \in PosOptions(m)} :
           S \in {T \in SUBSET Msgs : Cardinality(T) <= MaxMsgs}}

Ref(line) == Comment(CommentTypeReference, FmtCodeRef("f.go", line))

\* a translated entry of a catalog file
Entry(hash, comments, id, str) ==
    [ZeroMessage EXCEPT !.Msgctxt = Slot(1, comments, <<hash>>),
                        !.Msgid = Slot(1, <<>>, <<id>>),
                        !.Msgstr = Slot(1, <<>>, <<str>>)]

CatA == Entry(<<"h1">>, <<Ref(1)>>, <<"a">>, <<"A">>)
CatAStale == Entry(<<"h1">>, <<Ref(8), Ref(9)>>, <<"a">>, <<"A">>)
CatAObsolete == [CatA EXCEPT !.Obsolete = TRUE]
CatB == Entry(<<"h2">>, <<Comment(CommentTypeExtracted, <<"d">>), Ref(1)>>,
              <<"b">>, <<"B">>)
CatP ==
    [ZeroMessage EXCEPT !.Msgctxt = Slot(1, <<Ref(1)>>, <<<<"h3">>>>),
                        !.Msgid = Slot(1, <<>>, <<<<"o">>>>),
                        !.MsgidPlural = Slot(1, <<>>, <<<<"p">>>>),
                        !.MsgstrN = [k \in 0..5 |->
                                       IF k = 0 THEN Slot(1, <<>>, <<<<"O">>>>)
                                       ELSE IF k = 1 THEN Slot(1, <<>>, <<<<"P">>>>)
                                       ELSE ZeroSlot]]

\* entries whose translation is written on two lines
CatAM == [CatA EXCEPT !.Msgstr.Lines = <<<<"A1">>, <<"A2">>>>]
CatM == [CatAM EXCEPT !.Msgctxt.Lines = <<<<"h0">>>>]

RECURSIVE SeqsUpTo(_, _)
\* the sequences of at most n elements of S
SeqsUpTo(S, n) ==
    IF n = 0 THEN {<<>>}
    ELSE {<<>>} \cup {<<e>> \o t : e \in S, t \in SeqsUpTo(S, n - 1)}

\* the entry lists of the catalogs
Catalogs ==
    {<<>>, <<CatA>>, <<CatAStale>>, <<CatB>>, <<CatP>>, <<CatAM>>, <<CatM>>,
     <<CatA, CatB>>, <<CatB, CatA>>, <<CatAObsolete, CatP>>, <<CatAStale, CatP>>,
     <<CatM, CatA>>, <<CatA, CatM>>, <<CatP, CatB, CatA>>}

\* the header of catalog.<l>.po
CatalogHead(l) ==
    [ZeroHead EXCEPT !.Language = <<l>>,
                     !.MIMEVersion = <<"1.0">>,
                     !.ContentType = <<"text/plain; charset=UTF-8">>,
                     !.ContentTransferEncoding = <<"8bit">>,
                     !.PluralForms = [N |-> IF l = "pl" THEN 3 ELSE 2,
                                      Expression |-> <<"n != 1">>]]

\* a Plural-Forms value in the form parsePluralFormsHeader reads
PluralFormsText(pf) ==
    <<"nplurals=", ToString(pf.N), ";", " ", "plural=">> \o pf.Expression \o <<";">>

\* a catalog file as it is found in the bundle: the header block and the
\* entries of f in the layout of the encoder, Plural-Forms as the decoder
\* reads it
CatalogText(f) ==
    headLines(f.Head, PluralFormsText(f.Head.PluralForms))
    \o encodeMessages(f.List, 1, FALSE)

\* the sets of locales that have a catalog in the bundle
BundleLocales == {{"de"}, {"pl"}, {"de", "tlh"}, {"tlh"}}

Init ==
    /\ collection \in Collections
    /\ \E ls \in BundleLocales, c \in Catalogs, trail \in {<<>>, <<BlankLine>>} :
          disk = [l \in ls |->
                    CatalogText(File(CatalogHead(l), IF l = "tlh" THEN <<CatA>> ELSE c))
                    \o trail]
    /\ diskStart = disk
    /\ bundle = NoBundle
    /\ before = NoBundle
    /\ pc = "parse"
    /\ cur = ""
    /\ todoL = {}
    /\ todoM = {}
    /\ heap = NoHeap
    /\ opened = {}
    /\ run = 1
    /\ errMsg = ""
    /\ codec = CodecIdle

Next ==
    \/ ParseBundle
    \/ \E l \in LocaleTags : BeginLocale(l)
    \/ \E m \in Msgs : AddMessage(m)
    \/ \E m \in Msgs : UpdateMessage(m)
    \/ WriteCatalog
    \/ NextRun

Spec == Init /\ [][Next]_vars

(***************************************************************************)
(* Properties of the synchronization.  A locale in `opened` has been       *)
(* synchronized in the current run: bundle[l] is its File after the run,   *)
(* before[l] its File as it was decoded, disk[l] the file written.         *)
(***************************************************************************)
\* the texts of an entry other than its msgctxt
Texts(m) ==
    <<m.Msgid.Lines, m.MsgidPlural.Lines, m.Msgstr.Lines,
      [k \in 0..5 |-> m.MsgstrN[k].Lines]>>

\* the values of the reference comments of an entry, in order
References(m) ==
    LET rs == SelectSeq(m.Msgctxt.Comments, LAMBDA c : c.Type = CommentTypeReference)
    IN  [i \in 1..Len(rs) |-> rs[i].Value]

\* the references of the positions extraction reports for hash h
CurrentReferences(h) ==
    UNION {{FmtCodeRef(collection[m][i].Filename, collection[m][i].Line) :
              i \in 1..Len(collection[m])} :
           m \in {x \in DOMAIN collection : x.Hash = h}}

NoDuplicates(s) == \A i, j \in 1..Len(s) : i # j => s[i] # s[j]

\* the hashes of the entries of a catalog
CatalogHashes(f) == {String(f.List[i].Msgctxt.Lines) : i \in 1..Len(f.List)}

\* C3: a second run of the synchronization with the same extracted messages,
\* on the files the first run wrote, succeeds and writes the same bytes.
C3_SecondRunIdentical ==
    (run >= 2 /\ pc \in {"done", "failed"}) => (pc = "done" /\ disk = diskStart)

\* C4: every entry of the existing catalog is still in the synchronized
\* catalog, with the same Msgctxt and unchanged Msgid, MsgidPlural, Msgstr
\* and Msgstr0..Msgstr5 texts.
C4_TranslationsKept ==
    \A l \in DOMAIN bundle :
      \A i \in 1..Len(before[l].List) :
        \E j \in 1..Len(bundle[l].List) :
          /\ bundle[l].List[j].Msgctxt.Lines = before[l].List[i].Msgctxt.Lines
          /\ Texts(bundle[l].List[j]) = Texts(before[l].List[i])

\* C4 witness: a synchronized catalog that had a translated entry which
\* became obsolete, and that got a new entry
C4_Witness ==
    \E l \in opened :
      /\ Len(bundle[l].List) > Len(before[l].List)
      /\ \E i \in 1..Len(before[l].List) :
           /\ before[l].List[i].Msgstr.Lines = <<<<"A">>>>
           /\ ~before[l].List[i].Obsolete
           /\ bundle[l].List[i].Obsolete

\* C5: after synchronization the reference comments of an entry that is in
\* the existing catalog and in the extracted set are exactly the current
\* positions of the message, each once.
C5_ReferencesCurrent ==
    \A l \in opened :
      \A i \in 1..Len(before[l].List) :
        LET h == String(before[l].List[i].Msgctxt.Lines)
        IN  h \in CollHashes(collection) =>
              /\ Range(References(bundle[l].List[i])) = CurrentReferences(h)
              /\ NoDuplicates(References(bundle[l].List[i]))

\* C6: after synchronization an entry that was not obsolete is obsolete
\* exactly if its hash is not extracted any more, and keeps its texts; an
\* obsolete entry whose hash is not extracted is unchanged.
C6_ObsoleteIffAbsent ==
    \A l \in opened :
      \A i \in 1..Len(before[l].List) :
        LET b == before[l].List[i]
            a == bundle[l].List[i]
            absent == String(b.Msgctxt.Lines) \notin CollHashes(collection)
        IN  /\ ~b.Obsolete => ((a.Obsolete <=> absent) /\ Texts(a) = Texts(b))
            /\ (b.Obsolete /\ absent) => a = b

\* C6 witness: in one synchronized catalog an entry became obsolete with
\* its translation, and an obsolete entry that is still absent is there
C6_Witness ==
    \E l \in opened :
      \E i, j \in 1..Len(before[l].List) :
        /\ ~before[l].List[i].Obsolete /\ bundle[l].List[i].Obsolete
        /\ bundle[l].List[i].MsgstrN[1].Lines = <<<<"P">>>>
        /\ before[l].List[j].Obsolete
        /\ String(before[l].List[j].Msgctxt.Lines) \notin CollHashes(collection)

\* the references MsgFromGettextMessage writes for the positions of m
PositionReferences(m) ==
    [i \in 1..Len(collection[m]) |->
       FmtCodeRef(collection[m][i].Filename, collection[m][i].Line)]

\* the entries of catalog l appended in this run whose Msgctxt is hash h
NewEntries(l, h) ==
    {j \in (Len(before[l].List) + 1)..Len(bundle[l].List) :
       bundle[l].List[j].Msgctxt.Lines = <<h>>}

\* entry e has the blank translation slots of message m in locale l
BlankSlots(e, m, l) ==
    LET K == Len(ByTagOrBase(l).forms.CardinalForms)
    IN  IF m.FuncType \in {FuncTypePlural, FuncTypePluralBlock}
        THEN /\ e.MsgidPlural.Lines # <<>>
             /\ e.Msgstr.Lines = <<>>
             /\ \A k \in 0..5 :
                  e.MsgstrN[k].Lines = IF k < K THEN <<<<>>>> ELSE <<>>
        ELSE /\ e.MsgidPlural.Lines = <<>>
             /\ e.Msgstr.Lines = <<<<>>>>
             /\ \A k \in 0..5 : e.MsgstrN[k].Lines = <<>>

\* C7: for every extracted message whose hash has no entry in the existing
\* catalog the synchronization adds exactly one entry with that Msgctxt,
\* with one reference per position and blank slots sized to the locale.
C7_NewEntryAdded ==
    \A l \in opened :
      \A m \in DOMAIN collection :
        m.Hash \notin CatalogHashes(before[l]) =>
          /\ Cardinality(NewEntries(l, m.Hash)) = 1
          /\ \A j \in NewEntries(l, m.Hash) :
               /\ References(bundle[l].List[j]) = PositionReferences(m)
               /\ BlankSlots(bundle[l].List[j], m, l)

\* C8: after synchronization the entries of a catalog are in ascending
\* order of their Msgctxt hash.
C8_SortedByHash ==
    \A l \in opened :
      \A i, j \in 1..Len(bundle[l].List) :
        i < j => ~HashLess(String(bundle[l].List[j].Msgctxt.Lines),
                           String(bundle[l].List[i].Msgctxt.Lines))

\* C9: when updateTranslationCatalogs fails because a locale has no plural
\* rules, no catalog file of any locale was written or truncated in the run.
C9_NothingWrittenOnAbort ==
    (pc = "failed" /\ errMsg = ErrPluralForms) => (opened = {} /\ disk = diskStart)

\* C10: when the synchronization of a locale fails because its plural rules
\* are unknown, the File of that locale is as it was decoded and its file
\* on disk was not opened for writing.
C10_FailedLocaleUntouched ==
    (pc = "failed" /\ errMsg = ErrPluralForms) =>
        /\ bundle[cur] = before[cur]
        /\ cur \notin opened
        /\ disk[cur] = diskStart[cur]

\* C10 witness: the locale without plural rules failed after another locale
\* was written; its catalog has an entry that is not extracted any more and
\* there are extracted messages it does not have
C10_Witness ==
    /\ pc = "failed" /\ errMsg = ErrPluralForms
    /\ cur = "tlh"
    /\ opened # {}
    /\ \E i \in 1..Len(before[cur].List) :
         /\ ~before[cur].List[i].Obsolete
         /\ String(before[cur].List[i].Msgctxt.Lines) \notin CollHashes(collection)
    /\ \E m \in DOMAIN collection : m.Hash \notin CatalogHashes(before[cur])

(***************************************************************************)
(* The codec on one input: a text is decoded, the File is encoded, the     *)
(* output is decoded and encoded again.  codec.mode tells whether the      *)
(* pipeline started from a text ("text") or from a File ("file").          *)
(***************************************************************************)
Codec(mode, template, x0, f1, step) ==
    [mode |-> mode, template |-> template, x0 |-> x0, f1 |-> f1, x1 |-> <<>>,
     f2 |-> NoFile, x2 |-> <<>>, step |-> step, err |-> NoErr]

CatAMObsolete == [CatAM EXCEPT !.Obsolete = TRUE]
CatEmptyExtracted ==
    [CatA EXCEPT !.Msgctxt.Comments = <<Comment(CommentTypeExtracted, <<>>), Ref(1)>>]

CodecEntries == {CatA, CatAObsolete, CatB, CatP, CatAM, CatAMObsolete,
                 CatEmptyExtracted}

\* the Files the pipeline starts from
CodecFiles == {File(CatalogHead("de"), c) : c \in SeqsUpTo(CodecEntries, MaxEntries)}

\* a header block without MIME-Version, Content-Type and
\* Content-Transfer-Encoding
ShortHead ==
    <<DirLine(0, directiveTypeMsgid, 0, <<>>), DirLine(0, directiveTypeMsgstr, 0, <<>>),
      LitLine(0, HeaderText("Language", <<"de">>)), BlankLine>>

\* the texts the pipeline starts from: catalog files with or without an
\* empty line at the end, and files with a short header
\* a header block with two X- headers, in the layout of the encoder
XHead ==
    headLines([CatalogHead("de") EXCEPT
                 !.NonStandard = <<[Name |-> "X-Source", Value |-> <<"s">>],
                                   [Name |-> "X-Generator", Value |-> <<"g">>]>>],
              PluralFormsText(CatalogHead("de").PluralForms))

CodecTexts ==
    {CatalogText(f) \o trail : f \in CodecFiles, trail \in {<<>>, <<BlankLine>>}}
    \cup {ShortHead \o encodeMessages(<<e>>, 1, FALSE) : e \in CodecEntries}
    \cup {XHead \o encodeMessages(<<e>>, 1, FALSE) : e \in {CatA, CatP}}

InitCodec ==
    /\ codec \in {Codec("text", FALSE, x, NoFile, "decode0") : x \in CodecTexts}
                 \cup {Codec("file", FALSE, <<>>, f, "encode1") : f \in CodecFiles}
                 \cup {Codec("file", TRUE, <<>>, MakePOT(f), "encode1") :
                         f \in CodecFiles}
    /\ collection = [m \in {} |-> <<>>]
    /\ disk = [l \in {} |-> <<>>]
    /\ diskStart = disk
    /\ bundle = NoBundle
    /\ before = NoBundle
    /\ pc = "codec"
    /\ cur = ""
    /\ todoL = {}
    /\ todoM = {}
    /\ heap = NoHeap
    /\ opened = {}
    /\ run = 1
    /\ errMsg = ""

\* the pipeline after the decoder returned d for the input text
Decoded1(c, d) ==
    IF d.err # NoErr THEN [c EXCEPT !.step = "rejected", !.err = d.err]
    ELSE [c EXCEPT !.step = "encode1", !.f1 = d.f]

\* the pipeline after the decoder returned d for the output of the encoder
Decoded2(c, d) ==
    IF d.err # NoErr THEN [c EXCEPT !.step = "failed", !.err = d.err]
    ELSE [c EXCEPT !.step = "encode2", !.f2 = d.f]

\* Decoder.DecodePO / DecodePOT, on the input text and then on the output
\* of the encoder
DecodeText ==
    /\ codec.step \in {"decode0", "decode1"}
    /\ codec' = IF codec.step = "decode0"
                 THEN Decoded1(codec, decode(codec.x0, codec.template))
                 ELSE Decoded2(codec, decode(codec.x1, codec.template))
    /\ UNCHANGED syncVars

\* Encoder.EncodePO / EncodePOT, on the File and then on the File decoded
\* from its own output
EncodeFile ==
    /\ codec.step \in {"encode1", "encode2"}
    /\ codec' = IF codec.step = "encode1"
                 THEN [codec EXCEPT !.step = "decode1",
                                    !.x1 = encode(codec.f1, codec.template)]
                 ELSE [codec EXCEPT !.step = "done",
                                    !.x2 = encode(codec.f2, codec.template)]
    /\ UNCHANGED syncVars

NextCodec == DecodeText \/ EncodeFile

SpecCodec == InitCodec /\ [][NextCodec]_vars

\* a directive without its Span
SlotStructure(slot) == [Comments |-> slot.Comments, Lines |-> slot.Lines]

\* a File without the Spans: header fields, and per message the Obsolete
\* flag and the comments and literals of every directive
Structure(f) ==
    [Head |-> f.Head,
     List |-> [i \in 1..Len(f.List) |->
                 [Obsolete |-> f.List[i].Obsolete,
                  Msgctxt |-> SlotStructure(f.List[i].Msgctxt),
                  Msgid |-> SlotStructure(f.List[i].Msgid),
                  MsgidPlural |-> SlotStructure(f.List[i].MsgidPlural),
                  Msgstr |-> SlotStructure(f.List[i].Msgstr),
                  MsgstrN |-> [k \in 0..5 |-> SlotStructure(f.List[i].MsgstrN[k])]]]]

\* C1: for a text the decoder accepts, decoding the encoding of the decoded
\* File succeeds and gives a File structurally equal to it.
C1_RoundTrip ==
    (codec.mode = "text" /\ codec.step \in {"failed", "encode2", "done"}) =>
        (codec.step # "failed" /\ Structure(codec.f2) = Structure(codec.f1))

\* C2: for a File f, decoding encode(f) succeeds and encoding the result
\* gives encode(f) again, byte for byte.
C2_ReencodeExact ==
    (codec.mode = "file" /\ codec.step \in {"failed", "done"}) =>
        (codec.step = "done" /\ codec.x2 = codec.x1)

\* the header lines of the text x for the keys in names
LinesFor(x, names) ==
    SelectSeq(x, LAMBDA l : l.k = "lit" /\ l.v # <<>> /\ l.v[1] \in names)

\* C19: for a text decode accepts, the encoding of the decoded File has the
\* same Plural-Forms line, the same Content-Type line and the same X- lines
\* as the text, the X- lines in the same order.
C19_HeaderRoundTrip ==
    (codec.mode = "text" /\ codec.step \in {"decode1", "failed", "encode2", "done"}) =>
        /\ LinesFor(codec.x1, {"Plural-Forms"}) = LinesFor(codec.x0, {"Plural-Forms"})
        /\ LinesFor(codec.x1, {"Content-Type"}) = LinesFor(codec.x0, {"Content-Type"})
        /\ LinesFor(codec.x1, XNames) = LinesFor(codec.x0, XNames)

(***************************************************************************)
(* The decoder on one input text, step by step as Decoder.decode runs:     *)
(* the head message, then one message per iteration of its loop, then the  *)
(* check of the directive still pending at the end of the input.           *)
(* codec.x is the input, codec.r what is still unread.                     *)
(***************************************************************************)
Decoding(x) ==
    [mode |-> "decode", template |-> FALSE, x |-> x, r |-> x,
     pending |-> ZeroDirective, head |-> ZeroHead, list |-> <<>>,
     step |-> "head", err |-> NoErr]

\* decode returns the error e
Rejected(c, e) == [c EXCEPT !.step = "rejected", !.err = e]

\* decode after parseHead returned ph for the head message rm
HeadParsed(c, rm, ph) ==
    IF ph.err # NoErr THEN Rejected(c, ph.err)
    ELSE [c EXCEPT !.step = "loop", !.head = ph.h, !.r = rm.r,
                   !.pending = rm.pending]

\* decode after readMessage returned the head message rm
HeadRead(c, rm) ==
    IF rm.err # NoErr THEN Rejected(c, rm.err)
    ELSE HeadParsed(c, rm, parseHead(rm.m, c.template))

\* one iteration of the loop of decode after readMessage returned rm
EntryRead(c, rm) ==
    IF rm.err # NoErr THEN Rejected(c, rm.err)
    ELSE [c EXCEPT !.list = Append(@, rm.m), !.r = rm.r, !.pending = rm.pending]

\* the end of decode: the directive still pending decides
Finished(c, e) ==
    IF e # NoErr THEN Rejected(c, e) ELSE [c EXCEPT !.step = "accepted", !.r = <<>>]

\* decode on the head: readMessage and parseHead
ReadHead ==
    /\ codec.step = "head"
    /\ codec' = HeadRead(codec, readMessage(codec.r, ZeroDirective))
    /\ UNCHANGED syncVars

\* one iteration of the loop of decode: there is input after the blank lines
ReadEntry ==
    /\ codec.step = "loop"
    /\ readOptionalWhitespace(codec.r) # <<>>
    /\ codec' = EntryRead(codec, readMessage(readOptionalWhitespace(codec.r),
                                             codec.pending))
    /\ UNCHANGED syncVars

\* the loop of decode ends: readOptionalWhitespace returned io.EOF
FinishDecode ==
    /\ codec.step = "loop"
    /\ readOptionalWhitespace(codec.r) = <<>>
    /\ codec' = Finished(codec, pendingError(codec.pending))
    /\ UNCHANGED syncVars

NextDecode == ReadHead \/ ReadEntry \/ FinishDecode

(***************************************************************************)
(* Input texts of the decoder.  An input is [fam, x, entries]: the text x, *)
(* the family it is drawn from and the entries it was put together from.   *)
(***************************************************************************)
MaxDecoded == 2

Input(fam, x, entries) == [fam |-> fam, x |-> x, entries |-> entries]

\* a header block the decoder accepts
ValidHead == CatalogText(File(CatalogHead("de"), <<>>))

Dir(t, idx, v) == DirLine(0, t, idx, v)

EntrySimple == <<Dir(directiveTypeMsgid, 0, <<"a">>), Dir(directiveTypeMsgstr, 0, <<"x">>)>>
EntryContext ==
    <<ComLine(0, CommentTypeTranslator, <<"note">>),
      Dir(directiveTypeMsgctxt, 0, <<"c">>), Dir(directiveTypeMsgid, 0, <<"a">>),
      Dir(directiveTypeMsgstr, 0, <<"x">>)>>
EntryFlagged ==
    <<ComLine(0, CommentTypeFlag, <<"fuzzy">>), Dir(directiveTypeMsgid, 0, <<"b">>),
      ComLine(0, CommentTypeTranslator, <<"todo">>), Dir(directiveTypeMsgstr, 0, <<>>)>>
EntryPlural ==
    <<Dir(directiveTypeMsgid, 0, <<"a">>), Dir(directiveTypeMsgidPlural, 0, <<"p">>),
      Dir(directiveTypeMsgstrIndexed, 0, <<"y">>),
      Dir(directiveTypeMsgstrIndexed, 1, <<"z">>)>>
EntryMultiLine ==
    <<Dir(directiveTypeMsgid, 0, <<"a">>), Dir(directiveTypeMsgstr, 0, <<>>),
      LitLine(0, <<"x">>), LitLine(0, <<"y">>)>>
EntryObsolete ==
    <<DirLine(1, directiveTypeMsgid, 0, <<"a">>),
      DirLine(1, directiveTypeMsgstr, 0, <<"x">>)>>

WellFormedEntries ==
    {EntrySimple, EntryContext, EntryFlagged, EntryPlural, EntryMultiLine,
     EntryObsolete}

RECURSIVE JoinEntries(_, _)
\* the entries es one after the other, sep between two of them
JoinEntries(es, sep) ==
    IF es = <<>> THEN <<>>
    ELSE IF Len(es) = 1 THEN es[1]
    ELSE es[1] \o sep \o JoinEntries(Tail(es), sep)

\* up to MaxDecoded well-formed entries after a valid header, with or
\* without an empty line between them and at the end
InputsWellFormed ==
    {Input("wellformed", ValidHead \o JoinEntries(es, sep) \o trail, es) :
       es \in SeqsUpTo(WellFormedEntries, MaxDecoded),
       sep \in {<<>>, <<BlankLine>>}, trail \in {<<>>, <<BlankLine>>}}


MaxDirectives == 4

\* the directive lines the bodies of the "order" inputs are made of
DirectiveLines ==
    {Dir(directiveTypeMsgctxt, 0, <<"c">>), Dir(directiveTypeMsgid, 0, <<"a">>),
     Dir(directiveTypeMsgidPlural, 0, <<"p">>), Dir(directiveTypeMsgstr, 0, <<"x">>),
     Dir(directiveTypeMsgstrIndexed, 0, <<"y">>),
     Dir(directiveTypeMsgstrIndexed, 1, <<"z">>)}

\* up to MaxDirectives directives in any order after a valid header
InputsOrder ==
    {Input("order", ValidHead \o s, <<s>>) : s \in SeqsUpTo(DirectiveLines, MaxDirectives)}

MaxIndexed == 3

\* the plural indices written in the "plural" inputs
PluralIndices == {0, 1, 2, 3, 6}

\* msgid and msgid_plural followed by up to MaxIndexed msgstr[N] with the
\* indices ix
PluralEntry(ix) ==
    <<Dir(directiveTypeMsgid, 0, <<"a">>), Dir(directiveTypeMsgidPlural, 0, <<"p">>)>>
    \o [j \in 1..Len(ix) |-> Dir(directiveTypeMsgstrIndexed, ix[j], <<"y">>)]

InputsPlural ==
    {Input("plural", ValidHead \o PluralEntry(ix), ix) :
       ix \in SeqsUpTo(PluralIndices, MaxIndexed) \ {<<>>}}

EntryEmpty == <<Dir(directiveTypeMsgid, 0, <<"a">>), Dir(directiveTypeMsgstr, 0, <<>>)>>

Separators == {<<>>, <<BlankLine>>}

\* texts that end when the last directive read is msgstr or msgstr[i]; the
\* first is the header block alone, up to its last header line
InputsEofTerminal ==
    {Input("eof", Take(ValidHead, Len(ValidHead) - 1), [terminal |-> TRUE, es |-> <<>>])}
    \cup {Input("eof", ValidHead \o JoinEntries(es, sep), [terminal |-> TRUE, es |-> es]) :
            es \in {<<EntrySimple>>, <<EntryEmpty>>, <<EntryMultiLine>>,
                    <<PluralEntry(<<0>>)>>, <<EntryPlural>>, <<EntryObsolete>>,
                    <<EntrySimple, EntrySimple>>, <<EntryPlural, EntryMultiLine>>},
            sep \in Separators}

\* the starts of an entry that is not finished
Unfinished ==
    {<<ComLine(0, CommentTypeTranslator, <<"note">>)>>,
     <<Dir(directiveTypeMsgctxt, 0, <<"c">>)>>,
     <<Dir(directiveTypeMsgid, 0, <<"a">>)>>,
     <<ComLine(0, CommentTypeTranslator, <<"note">>), Dir(directiveTypeMsgid, 0, <<"a">>)>>,
     <<Dir(directiveTypeMsgctxt, 0, <<"c">>), Dir(directiveTypeMsgid, 0, <<"a">>)>>,
     <<Dir(directiveTypeMsgid, 0, <<"a">>), Dir(directiveTypeMsgidPlural, 0, <<"p">>)>>}

\* texts that end in the middle of an entry, after complete entries or
\* right after the header
InputsEofUnfinished ==
    {Input("eof", ValidHead \o JoinEntries(es \o <<u>>, sep),
           [terminal |-> FALSE, es |-> es \o <<u>>]) :
       es \in {<<>>, <<EntrySimple>>, <<EntryPlural>>}, u \in Unfinished,
       sep \in Separators}

\* an entry of an optional comment, msgid and msgstr; each line is written
\* with the `#~ ` prefix (1) or without it (0); c = 2: no comment
PrefixedEntry(c, i, s) ==
    (IF c = 2 THEN <<>> ELSE <<ComLine(c, CommentTypeTranslator, <<"note">>)>>)
    \o <<DirLine(i, directiveTypeMsgid, 0, <<"a">>),
         DirLine(s, directiveTypeMsgstr, 0, <<"x">>)>>

PrefixedEntries == {PrefixedEntry(c, i, s) : c \in 0..2, i \in 0..1, s \in 0..1}

\* up to MaxDecoded such entries after a valid header
InputsObsolete ==
    {Input("obsolete", ValidHead \o JoinEntries(es, sep), es) :
       es \in SeqsUpTo(PrefixedEntries, MaxDecoded) \ {<<>>}, sep \in Separators}

\* the header lines of ValidHead, as string literals
HeaderLiterals == SubSeq(ValidHead, 3, Len(ValidHead) - 1)

\* the directives in front of the headers of a first entry: an optional
\* msgctxt, msgid, and msgstr or msgid_plural with msgstr[0]
FirstEntryStarts ==
    {ctxt \o <<Dir(directiveTypeMsgid, 0, id)>> \o str :
       ctxt \in {<<>>, <<Dir(directiveTypeMsgctxt, 0, <<>>)>>,
                 <<Dir(directiveTypeMsgctxt, 0, <<"c">>)>>},
       id \in {<<>>, <<"a">>},
       str \in {<<Dir(directiveTypeMsgstr, 0, <<>>)>>,
                <<Dir(directiveTypeMsgidPlural, 0, <<>>),
                  Dir(directiveTypeMsgstrIndexed, 0, <<>>)>>,
                <<Dir(directiveTypeMsgidPlural, 0, <<"p">>),
                  Dir(directiveTypeMsgstrIndexed, 0, <<>>)>>}}

\* a first entry with the header lines of ValidHead, alone or followed by
\* one entry
InputsFirstEntry ==
    {Input("first", e \o HeaderLiterals \o <<BlankLine>> \o rest, e) :
       e \in FirstEntryStarts, rest \in {<<>>, EntrySimple}}

MaxHeaders == 3

\* the header lines the "keys" inputs are made of: key and value
HeaderChoices ==
    {<<"Language", <<"de">>>>, <<"Project-Id-Version", <<"p">>>>,
     <<"MIME-Version", <<"1.0">>>>,
     <<"X-Generator", <<"g">>>>, <<"X-Generator", <<"h">>>>,
     <<"X-Source", <<"s">>>>, <<"Foo", <<"bar">>>>}

RECURSIVE HeaderLines(_)
HeaderLines(kvs) ==
    IF kvs = <<>> THEN <<>>
    ELSE HeaderLine(Head(kvs)[1], Head(kvs)[2]) \o HeaderLines(Tail(kvs))

\* a header block with the header lines kvs
HeadWith(kvs) ==
    <<Dir(directiveTypeMsgid, 0, <<>>), Dir(directiveTypeMsgstr, 0, <<>>)>>
    \o HeaderLines(kvs) \o <<BlankLine>>

\* header blocks with one to MaxHeaders header lines in any order
InputsKeys ==
    {Input("keys", HeadWith(kvs), kvs) :
       kvs \in SeqsUpTo(HeaderChoices, MaxHeaders) \ {<<>>}}

\* the header line for key: absent (0), the supported value ok (1), or
\* another value (2)
MimeLine(key, ok, other, c) ==
    IF c = 0 THEN <<>> ELSE <<<<key, IF c = 1 THEN ok ELSE other>>>>

\* the MIME-Version, Content-Type and Content-Transfer-Encoding lines for
\* the choices c
MimeLines(c) ==
    MimeLine("MIME-Version", <<"1.0">>, <<"1.1">>, c[1])
    \o MimeLine("Content-Type", <<"text/plain; charset=UTF-8">>,
                <<"text/plain; charset=ISO-8859-1">>, c[2])
    \o MimeLine("Content-Transfer-Encoding", <<"8bit">>, <<"base64">>, c[3])

\* header blocks in which each of the three lines is absent, supported or
\* not supported, alone or followed by one entry
InputsMime ==
    {Input("mime", HeadWith(<<<<"Language", <<"de">>>>>> \o MimeLines(c)) \o rest, c) :
       c \in (0..2) \X (0..2) \X (0..2), rest \in {<<>>, EntrySimple}}

\* an entry whose msgid or msgstr (slot) is written as `""` followed by the
\* continuation lines vals, and a simple entry after it; every line has the
\* `#~ ` prefix (obs = 1) or none (obs = 0)
ContinuedEntry(obs, slot, vals) ==
    (IF slot = "Msgid"
     THEN <<DirLine(obs, directiveTypeMsgid, 0, <<>>)>>
          \o [j \in 1..Len(vals) |-> LitLine(obs, vals[j])]
          \o <<DirLine(obs, directiveTypeMsgstr, 0, <<"x">>)>>
     ELSE <<DirLine(obs, directiveTypeMsgid, 0, <<"a">>),
            DirLine(obs, directiveTypeMsgstr, 0, <<>>)>>
          \o [j \in 1..Len(vals) |-> LitLine(obs, vals[j])])
    \o <<BlankLine, DirLine(obs, directiveTypeMsgid, 0, <<"b">>),
         DirLine(obs, directiveTypeMsgstr, 0, <<"y">>)>>

ContinuationValues == {<<<<"p">>>>, <<<<"p">>, <<"q">>>>, <<<<"p">>, <<>>, <<"q">>>>}

InputsContinued ==
    {Input("continued", ValidHead \o ContinuedEntry(obs, slot, vals),
           [obs |-> obs, slot |-> slot, vals |-> vals,
            plain |-> ValidHead \o ContinuedEntry(0, slot, vals)]) :
       obs \in 0..1, slot \in {"Msgid", "Msgstr"}, vals \in ContinuationValues}

\* comment types of `#|` lines
CommentTypePreviousContext == 5
CommentTypePreviousUntranslated == 6

\* a `#|` line: a comment line without one of the four types
PreviousLine(v) == ComLine(0, 0, v)

PreviousContinuations ==
    {[kind |-> "msgctxt", v |-> <<" msgctxt", " ", "\"old\"">>],
     [kind |-> "msgid", v |-> <<" msgid", " ", "\"old\"">>],
     [kind |-> "other", v |-> <<" msgstr", " ", "\"old\"">>]}

\* an entry with a `#|` line in front of msgid, after the comments pre and
\* before the comments post
InputsPrevious ==
    {Input("previous",
           ValidHead \o pre \o <<PreviousLine(p.v)>> \o post
             \o <<Dir(directiveTypeMsgid, 0, <<"a">>), Dir(directiveTypeMsgstr, 0, <<"x">>)>>
             \o trail,
           [kind |-> p.kind, post |-> post]) :
       p \in PreviousContinuations,
       pre \in {<<>>, <<ComLine(0, CommentTypeTranslator, <<"note">>)>>},
       post \in {<<>>, <<ComLine(0, CommentTypeFlag, <<"fuzzy">>)>>},
       trail \in {<<>>, <<BlankLine>>, <<BlankLine>> \o EntrySimple}}

\* the input texts of the decoder
DecodeInputs == InputsWellFormed \cup InputsOrder \cup InputsPlural \cup InputsEofTerminal \cup InputsEofUnfinished \cup InputsObsolete \cup InputsFirstEntry \cup InputsKeys \cup InputsMime \cup InputsContinued \cup InputsPrevious

InitDecode ==
    /\ codec \in {[Decoding(i.x) EXCEPT !.mode = i.fam] @@ [entries |-> i.entries] :
                    i \in DecodeInputs}
    /\ collection = [m \in {} |-> <<>>]
    /\ disk = [l \in {} |-> <<>>]
    /\ diskStart = disk
    /\ bundle = NoBundle
    /\ before = NoBundle
    /\ pc = "codec"
    /\ cur = ""
    /\ todoL = {}
    /\ todoM = {}
    /\ heap = NoHeap
    /\ opened = {}
    /\ run = 1
    /\ errMsg = ""

SpecDecode == InitDecode /\ [][NextDecode]_vars

\* the result of the pure decode on the whole input, for comparison
DecodeAgrees ==
    codec.step \in {"accepted", "rejected"} =>
        /\ decode(codec.x, FALSE).err = codec.err
        /\ codec.step = "accepted" =>
             decode(codec.x, FALSE).f = File(codec.head, codec.list)

\* what an entry of the input holds: per directive its type, index, the
\* comments in front of it and its text
RECURSIVE EntryDirectives(_, _, _)
EntryDirectives(lines, cs, acc) ==
    IF lines = <<>> THEN acc
    ELSE IF Head(lines).k = "com"
    THEN EntryDirectives(Tail(lines),
                         Append(cs, Comment(Head(lines).t, Head(lines).v)), acc)
    ELSE IF Head(lines).k = "dir"
    THEN EntryDirectives(Tail(lines), <<>>,
                         Append(acc, [t |-> Head(lines).t, idx |-> Head(lines).idx,
                                      comments |-> cs, text |-> Head(lines).v]))
    ELSE EntryDirectives(Tail(lines), cs,
                         Take(acc, Len(acc) - 1) \o
                         <<[acc[Len(acc)] EXCEPT !.text = @ \o Head(lines).v]>>)

\* what a decoded message holds, in the same form
SlotDirective(t, idx, slot) ==
    IF Len(slot.Lines) < 1 THEN <<>>
    ELSE <<[t |-> t, idx |-> idx, comments |-> slot.Comments,
            text |-> String(slot.Lines)]>>

MessageDirectives(m) ==
    SlotDirective(directiveTypeMsgctxt, 0, m.Msgctxt)
    \o SlotDirective(directiveTypeMsgid, 0, m.Msgid)
    \o SlotDirective(directiveTypeMsgidPlural, 0, m.MsgidPlural)
    \o SlotDirective(directiveTypeMsgstr, 0, m.Msgstr)
    \o SlotDirective(directiveTypeMsgstrIndexed, 0, m.MsgstrN[0])
    \o SlotDirective(directiveTypeMsgstrIndexed, 1, m.MsgstrN[1])
    \o SlotDirective(directiveTypeMsgstrIndexed, 2, m.MsgstrN[2])
    \o SlotDirective(directiveTypeMsgstrIndexed, 3, m.MsgstrN[3])
    \o SlotDirective(directiveTypeMsgstrIndexed, 4, m.MsgstrN[4])
    \o SlotDirective(directiveTypeMsgstrIndexed, 5, m.MsgstrN[5])

\* C11: for a sequence of k well-formed entries, with or without empty lines
\* between them, decode returns k messages in input order, and each message
\* holds exactly the directives and comments of its entry.
C11_EntriesKept ==
    (codec.mode = "wellformed" /\ codec.step \in {"accepted", "rejected"}) =>
        /\ codec.step = "accepted"
        /\ Len(codec.list) = Len(codec.entries)
        /\ \A i \in 1..Len(codec.entries) :
             MessageDirectives(codec.list[i]) =
                 EntryDirectives(codec.entries[i], <<>>, <<>>)

RECURSIVE WellOrdered(_, _, _)
\* the directive lines s, read after a directive of type previous (0 at the
\* start of an entry) with index prevIdx, are in one of the orders
\* [msgctxt] msgid msgstr and [msgctxt] msgid msgid_plural msgstr[0]
\* msgstr[1] ..., entry after entry
WellOrdered(s, previous, prevIdx) ==
    IF s = <<>> THEN previous \in {0, directiveTypeMsgstr, directiveTypeMsgstrIndexed}
    ELSE /\ CASE Head(s).t = directiveTypeMsgctxt ->
                   previous \in {0, directiveTypeMsgstr, directiveTypeMsgstrIndexed}
              [] Head(s).t = directiveTypeMsgid ->
                   previous \in {0, directiveTypeMsgctxt, directiveTypeMsgstr,
                                 directiveTypeMsgstrIndexed}
              [] Head(s).t = directiveTypeMsgidPlural -> previous = directiveTypeMsgid
              [] Head(s).t = directiveTypeMsgstr -> previous = directiveTypeMsgid
              [] OTHER ->
                   \/ previous = directiveTypeMsgidPlural /\ Head(s).idx = 0
                   \/ previous = directiveTypeMsgstrIndexed /\ Head(s).idx = prevIdx + 1
         /\ WellOrdered(Tail(s), Head(s).t, Head(s).idx)

RECURSIVE DirectiveCount(_)
\* the number of directives the messages of list hold
DirectiveCount(list) ==
    IF list = <<>> THEN 0
    ELSE Len(MessageDirectives(Head(list))) + DirectiveCount(Tail(list))

\* C12: decode accepts directives only in the orders [msgctxt] msgid msgstr
\* and [msgctxt] msgid msgid_plural msgstr[0] msgstr[1] ...; any other
\* sequence of directives is rejected with a syntax error that names the
\* expected directive, and every directive of an accepted text is in a
\* message.
C12_OrderEnforced ==
    (codec.mode = "order" /\ codec.step \in {"accepted", "rejected"}) =>
        /\ codec.step = "accepted" =>
             /\ WellOrdered(codec.entries[1], 0, 0)
             /\ DirectiveCount(codec.list) = Len(codec.entries[1])
        /\ codec.step = "rejected" => codec.err.Expected # ""

\* the positions of ix whose index is not the one that follows the index
\* before it (0 at the first position)
OutOfSequence(ix) == {j \in 1..Len(ix) : ix[j] # j - 1}

FirstOutOfSequence(ix) ==
    CHOOSE j \in OutOfSequence(ix) : \A k \in OutOfSequence(ix) : j <= k

\* C13: in a plural entry the first msgstr[N] has N = 0 and each following
\* one the index before it plus one; otherwise decode returns a syntax
\* error whose Expected names the index that had to come, msgstr[previous+1].
C13_IndexMonotonic ==
    (codec.mode = "plural" /\ codec.step \in {"accepted", "rejected"}) =>
        IF OutOfSequence(codec.entries) = {}
        THEN /\ codec.step = "accepted"
             /\ Len(codec.list) = 1
             /\ \A i \in 0..5 :
                  (Len(codec.list[1].MsgstrN[i].Lines) >= 1) = (i < Len(codec.entries))
        ELSE /\ codec.step = "rejected"
             /\ codec.err =
                  Error("msgstr[" \o ToString(FirstOutOfSequence(codec.entries) - 1)
                        \o "]", "")

\* C14: when the text ends after the msgstr or msgstr[i] of its last entry,
\* decode succeeds and returns every entry, the last one included; when it
\* ends anywhere else in an entry, decode returns a syntax error that names
\* an expected directive.
C14_EofOnlyWhenTerminal ==
    (codec.mode = "eof" /\ codec.step \in {"accepted", "rejected"}) =>
        IF codec.entries.terminal
        THEN /\ codec.step = "accepted"
             /\ Len(codec.list) = Len(codec.entries.es)
             /\ \A i \in 1..Len(codec.entries.es) :
                  MessageDirectives(codec.list[i]) =
                      EntryDirectives(codec.entries.es[i], <<>>, <<>>)
        ELSE codec.step = "rejected" /\ codec.err.Expected # ""

\* an entry that stops after msgid_plural
EntryNoMsgstr ==
    <<Dir(directiveTypeMsgid, 0, <<"a">>), Dir(directiveTypeMsgidPlural, 0, <<"p">>)>>

\* C15: when the text ends right after the msgid_plural of its last entry,
\* decode returns a syntax error whose Expected is "msgstr[0]".
C15_EofAfterMsgidPlural ==
    (/\ codec.mode = "eof" /\ codec.step \in {"accepted", "rejected"}
     /\ ~codec.entries.terminal
     /\ codec.entries.es[Len(codec.entries.es)] = EntryNoMsgstr) =>
        (codec.step = "rejected" /\ codec.err.Expected = "msgstr[0]")

\* every line of the entry e has the `#~ ` prefix, or none has
Uniform(e) == \A j \in 1..Len(e) : e[j].obs = e[1].obs

\* C16: a message is decoded with Obsolete = TRUE exactly when its entry
\* starts with `#~`, its comments and directives are stored without the
\* prefix, and a text with an entry that has the prefix on some lines only
\* is rejected.
C16_ObsoleteConsistent ==
    (codec.mode = "obsolete" /\ codec.step \in {"accepted", "rejected"}) =>
        IF \A i \in 1..Len(codec.entries) : Uniform(codec.entries[i])
        THEN /\ codec.step = "accepted"
             /\ Len(codec.list) = Len(codec.entries)
             /\ \A i \in 1..Len(codec.entries) :
                  /\ codec.list[i].Obsolete = (codec.entries[i][1].obs = 1)
                  /\ MessageDirectives(codec.list[i]) =
                         EntryDirectives(codec.entries[i], <<>>, <<>>)
        ELSE codec.step = "rejected"

\* the first entry e has an empty msgid and no msgctxt, msgid_plural or
\* msgstr[N] directive
HeaderShaped(e) ==
    \A j \in 1..Len(e) :
        /\ e[j].t \in {directiveTypeMsgid, directiveTypeMsgstr}
        /\ e[j].t = directiveTypeMsgid => e[j].v = <<>>

\* C17: decode returns an error for every text whose first entry has a
\* msgctxt, msgid_plural or msgstr[N] directive, whatever its text, or a
\* msgid that is not empty; a first entry without them is read as header.
C17_HeaderEntryOnly ==
    (codec.mode = "first" /\ codec.step \in {"accepted", "rejected"}) =>
        IF HeaderShaped(codec.entries)
        THEN codec.step = "accepted" /\ codec.head = CatalogHead("de")
        ELSE codec.step = "rejected"

StandardNames ==
    {"Project-Id-Version", "Report-Msgid-Bugs-To", "POT-Creation-Date",
     "PO-Revision-Date", "Last-Translator", "Language-Team", "Language",
     "MIME-Version", "Content-Type", "Content-Transfer-Encoding", "Plural-Forms"}

\* a key of kvs occurs twice
DuplicateKey(kvs) == \E i, j \in 1..Len(kvs) : i < j /\ kvs[i][1] = kvs[j][1]

\* a key of kvs is neither a known header name nor an X- name
UnknownKey(kvs) == \E i \in 1..Len(kvs) : kvs[i][1] \notin StandardNames \cup XNames

\* the X- headers of kvs, in their order
NonStandardOf(kvs) ==
    [i \in 1..Len(SelectSeq(kvs, LAMBDA kv : kv[1] \in XNames)) |->
       [Name |-> SelectSeq(kvs, LAMBDA kv : kv[1] \in XNames)[i][1],
        Value |-> SelectSeq(kvs, LAMBDA kv : kv[1] \in XNames)[i][2]]]

\* C18: a header block in which a key occurs twice, or with a key that is
\* neither a known header name nor X--prefixed, is rejected with the error
\* for a duplicate or an unsupported header; a header block of distinct
\* known and X- keys is accepted and every X- header is kept.
C18_HeaderKeys ==
    (codec.mode = "keys" /\ codec.step \in {"accepted", "rejected"}) =>
        IF DuplicateKey(codec.entries) \/ UnknownKey(codec.entries)
        THEN /\ codec.step = "rejected"
             /\ codec.err.Err \in {"duplicate header", "unsupported header"}
        ELSE /\ codec.step = "accepted"
             /\ codec.head.NonStandard = NonStandardOf(codec.entries)

\* C18 witness: a header block in which the key Language occurs twice was
\* rejected as a duplicate
C18_Witness ==
    /\ codec.mode = "keys" /\ codec.step = "rejected"
    /\ codec.err.Err = "duplicate header"
    /\ \E i, j \in 1..Len(codec.entries) :
         i < j /\ codec.entries[i][1] = "Language" /\ codec.entries[j][1] = "Language"

\* C20: every File decode returns has MIME-Version "1.0", Content-Type
\* "text/plain; charset=UTF-8" and Content-Transfer-Encoding "8bit" in its
\* head, and a header block in which one of the three has another value is
\* rejected with the error for the unsupported value.
C20_SupportedMime ==
    (codec.mode = "mime" /\ codec.step \in {"accepted", "rejected"}) =>
        /\ codec.step = "accepted" =>
             /\ codec.head.MIMEVersion = <<"1.0">>
             /\ codec.head.ContentType = <<"text/plain; charset=UTF-8">>
             /\ codec.head.ContentTransferEncoding = <<"8bit">>
        /\ (\E i \in 1..3 : codec.entries[i] = 2) =>
             /\ codec.step = "rejected"
             /\ codec.err.Err \in {"unsupported MIME-Version", "unsupported Content-Type",
                                   "unsupported Content-Transfer-Encoding"}

(***************************************************************************)
(* FilePO.MakePOT and what shares memory with its argument afterwards.     *)
(* codec.f is the FilePO, codec.pot the FilePOT returned, codec.shared the *)
(* slices of codec.pot that have the backing array of the same slice of    *)
(* codec.f: <<i, slot, field>> for message i, field "Comments" or "Lines". *)
(* f0 and pot0 keep the values at the call and at the return.              *)
(***************************************************************************)
MaxPOTEntries == 2

TextSlots == {"Msgctxt", "Msgid", "MsgidPlural"}
MsgstrSlots == {"Msgstr"}

\* the slices of the result of MakePOT that are the slices of f: File.Clone
\* copies every slice into a new array, but the loop then puts its copy m
\* of f.Messages.List[i], not the clone, into the result for each message
\* that is not obsolete, and only the Text of the msgstr slots of m is new
MakePOTShared(f) ==
    {<<i, slot, field>> : i \in {j \in 1..Len(f.List) : ~f.List[j].Obsolete},
                          slot \in TextSlots \cup MsgstrSlots,
                          field \in {"Comments", "Lines"}}
    \ {<<i, slot, "Lines">> : i \in 1..Len(f.List), slot \in MsgstrSlots}

ReplaceAt(s, i, v) == SubSeq(s, 1, i - 1) \o <<v>> \o SubSeq(s, i + 1, Len(s))

\* the first element of a slice written in place
EditFirst(s, field) ==
    ReplaceAt(s, 1, IF field = "Comments" THEN [s[1] EXCEPT !.Value = <<"edited">>]
                    ELSE <<"edited">>)

\* file after the first element of the slice <<i, slot, field>> was written
EditSlice(file, i, slot, field) ==
    [file EXCEPT !.List =
       ReplaceAt(@, i, [@[i] EXCEPT ![slot][field] = EditFirst(@, field)])]

POT(f) ==
    [mode |-> "pot", f0 |-> f, f |-> f, pot |-> NoFile, pot0 |-> NoFile,
     pot2 |-> NoFile, shared |-> {}, out |-> <<>>, step |-> "start"]

\* f.MakePOT()
CallMakePOT ==
    /\ codec.mode = "pot" /\ codec.step = "start"
    /\ codec' = [codec EXCEPT !.pot = MakePOT(codec.f), !.pot0 = MakePOT(codec.f),
                              !.shared = MakePOTShared(codec.f), !.step = "made"]
    /\ UNCHANGED syncVars

\* the caller writes an element of a slice of the result in place
EditResult ==
    /\ codec.mode = "pot" /\ codec.step = "made"
    /\ \E i \in 1..Len(codec.pot.List), slot \in TextSlots \cup MsgstrSlots,
          field \in {"Comments", "Lines"} :
         /\ codec.pot.List[i][slot][field] # <<>>
         /\ codec' = [codec EXCEPT
                        !.pot = EditSlice(@, i, slot, field),
                        !.f = IF <<i, slot, field>> \in codec.shared
                              THEN EditSlice(@, i, slot, field) ELSE @,
                        !.step = "resultEdited"]
    /\ UNCHANGED syncVars

\* the caller writes an element of a slice of f in place
EditSource ==
    /\ codec.mode = "pot" /\ codec.step = "made"
    /\ \E i \in 1..Len(codec.f.List), slot \in TextSlots \cup MsgstrSlots,
          field \in {"Comments", "Lines"} :
         /\ codec.f.List[i][slot][field] # <<>>
         /\ codec' = [codec EXCEPT
                        !.f = EditSlice(@, i, slot, field),
                        !.pot = IF <<i, slot, field>> \in codec.shared
                                THEN EditSlice(@, i, slot, field) ELSE @,
                        !.step = "sourceEdited"]
    /\ UNCHANGED syncVars

\* the caller appends a head comment to the result: the clone of the head
\* comments has no spare capacity, so append writes a new array
AppendHeadComment ==
    /\ codec.mode = "pot" /\ codec.step = "made"
    /\ codec' = [codec EXCEPT
                   !.pot.Head.HeadComments =
                       @ \o <<Comment(CommentTypeTranslator, <<"added">>)>>,
                   !.step = "resultEdited"]
    /\ UNCHANGED syncVars

\* Encoder.EncodePOT on the result (writeTranslationTemplate)
EncodeTemplate ==
    /\ codec.mode = "pot" /\ codec.step = "made"
    /\ codec' = [codec EXCEPT !.out = EncodePOT(codec.pot), !.step = "encoded"]
    /\ UNCHANGED syncVars

\* MakePOT on the FilePO that holds the File of the result
CallMakePOTAgain ==
    /\ codec.mode = "pot" /\ codec.step = "made"
    /\ codec' = [codec EXCEPT !.pot2 = MakePOT(codec.pot), !.step = "madeTwice"]
    /\ UNCHANGED syncVars

\* a head with every field set
FullHead ==
    [CatalogHead("de") EXCEPT
       !.HeadComments = <<Comment(CommentTypeTranslator, <<"head">>)>>,
       !.ProjectIdVersion = <<"p">>, !.ReportMsgidBugsTo = <<"r">>,
       !.POTCreationDate = <<"d1">>, !.PORevisionDate = <<"d2">>,
       !.LastTranslator = <<"t">>, !.LanguageTeam = <<"lt">>,
       !.NonStandard = <<[Name |-> "X-Generator", Value |-> <<"g">>]>>]

\* the FilePO values MakePOT is called on
POTFiles ==
    {File(h, c) : h \in {CatalogHead("de"), FullHead},
                  c \in SeqsUpTo(CodecEntries, MaxPOTEntries)}

InitPOT ==
    /\ codec \in {POT(f) : f \in POTFiles}
    /\ collection = [m \in {} |-> <<>>]
    /\ disk = [l \in {} |-> <<>>]
    /\ diskStart = disk
    /\ bundle = NoBundle
    /\ before = NoBundle
    /\ pc = "codec"
    /\ cur = ""
    /\ todoL = {}
    /\ todoM = {}
    /\ heap = NoHeap
    /\ opened = {}
    /\ run = 1
    /\ errMsg = ""

NextPOT ==
    \/ CallMakePOT \/ EditResult \/ EditSource \/ AppendHeadComment
    \/ EncodeTemplate \/ CallMakePOTAgain

SpecPOT == InitPOT /\ [][NextPOT]_vars

\* C21: MakePOT leaves f unchanged, and the FilePOT it returns is an
\* independent copy: writing into the result afterwards does not change f,
\* and writing into f does not change the result.
C21_MakePOTPure ==
    codec.mode = "pot" =>
        /\ codec.step \in {"made", "encoded", "resultEdited"} => codec.f = codec.f0
        /\ codec.step = "sourceEdited" => codec.pot = codec.pot0

\* C22: the FilePOT MakePOT returns has no message with Obsolete = TRUE,
\* and the encoded .pot has no line with the `#~ ` prefix.
C22_NoObsoleteInPOT ==
    codec.mode = "pot" =>
        /\ codec.step # "start" =>
             \A i \in 1..Len(codec.pot0.List) : ~codec.pot0.List[i].Obsolete
        /\ codec.step = "encoded" =>
             \A j \in 1..Len(codec.out) : codec.out[j].obs = 0

\* the msgstr slot slot of f after MakePOT as the claim C23 has it: the
\* comments kept, one empty literal if it had text, no text otherwise
Blanked(slot) ==
    [slot EXCEPT !.Lines = IF Len(slot.Lines) > 0 THEN <<<<>>>> ELSE <<>>]

\* C23: for every message of f that is not obsolete MakePOT keeps Msgctxt,
\* Msgid, MsgidPlural and all comments, and each of Msgstr, Msgstr0..5 has
\* exactly one empty literal if it had text in f and none otherwise; in the
\* head Language, Last-Translator, PO-Revision-Date and Language-Team are
\* empty and every other field is as in f.
C23_MakePOTBlanks ==
    (codec.mode = "pot" /\ codec.step # "start") =>
        /\ Len(codec.pot0.List) = Len(codec.f0.List)
        /\ \A i \in 1..Len(codec.f0.List) :
             ~codec.f0.List[i].Obsolete =>
                 /\ ~codec.pot0.List[i].Obsolete
                 /\ codec.pot0.List[i].Msgctxt = codec.f0.List[i].Msgctxt
                 /\ codec.pot0.List[i].Msgid = codec.f0.List[i].Msgid
                 /\ codec.pot0.List[i].MsgidPlural = codec.f0.List[i].MsgidPlural
                 /\ codec.pot0.List[i].Msgstr = Blanked(codec.f0.List[i].Msgstr)
                 /\ \A k \in 0..5 :
                      codec.pot0.List[i].MsgstrN[k] =
                          Blanked(codec.f0.List[i].MsgstrN[k])
        /\ codec.pot0.Head =
               [codec.f0.Head EXCEPT !.Language = <<>>, !.LastTranslator = <<>>,
                                     !.PORevisionDate = <<>>, !.LanguageTeam = <<>>]

\* C23 witness: MakePOT returned for a file with every head field set and
\* a plural message with two translated forms, the other forms absent
C23_Witness ==
    /\ codec.mode = "pot" /\ codec.step = "made"
    /\ codec.f0.Head = FullHead
    /\ \E i \in 1..Len(codec.f0.List) :
         /\ ~codec.f0.List[i].Obsolete
         /\ Len(codec.f0.List[i].MsgstrN[1].Lines) > 0
         /\ String(codec.f0.List[i].MsgstrN[1].Lines) # <<>>
         /\ Len(codec.f0.List[i].MsgstrN[2].Lines) = 0
         /\ codec.pot0.List[i].MsgstrN[1].Lines = <<<<>>>>

\* C24: MakePOT applied to the result of MakePOT(f), taken as a FilePO,
\* gives a File equal to MakePOT(f).
C24_MakePOTIdempotent ==
    (codec.mode = "pot" /\ codec.step = "madeTwice") => codec.pot2 = codec.pot0

\* C24 witness: MakePOT was applied twice to a file with every head field
\* set and a translated message, so the first application changed it
C24_Witness ==
    /\ codec.mode = "pot" /\ codec.step = "madeTwice"
    /\ codec.f0.Head = FullHead
    /\ codec.pot0 # codec.f0
    /\ \E i \in 1..Len(codec.f0.List) :
         ~codec.f0.List[i].Obsolete /\ String(codec.f0.List[i].Msgstr.Lines) # <<>>

(***************************************************************************)
(* localize.New and the Bundle it returns (localize.go).  A reader is      *)
(* [id, Locale]: id tells apart two readers of the same locale; Locale is  *)
(* the text of its language tag.  codec.args are the readers given to New. *)
(***************************************************************************)
MaxReaders == 3

ErrEmptyBundle == "bundle has no catalogs"
ErrReaderConflict == "conflicting readers"

Reader(id, locale) == [id |-> id, Locale |-> locale]
NilReader == Reader(0, "")
NilBundle == [locales |-> <<>>, readers |-> <<>>, defaultLocaleStr |-> "",
              readerByLocale |-> <<>>, nil |-> TRUE]

\* the locales of the readers and of the default locale
ReaderTags == {"en", "en-US", "de", "de-AT"}
DefaultTags == {"en", "de", "fr"}

\* Reader.Base: the base language of the locale of the reader
BaseOf(locale) ==
    CASE locale \in {"en", "en-US"} -> "en"
      [] locale \in {"de", "de-AT"} -> "de"
      [] OTHER -> locale

RECURSIVE NewLoopOverwrite(_, _, _, _, _, _)
\* the loop of New without the test for a locale that is already taken
NewLoopOverwrite(def, rs, i, readerByLocale, readers, locales) ==
    IF i > Len(rs)
    THEN [b |-> [locales |-> locales, readers |-> readers, defaultLocaleStr |-> def,
                 readerByLocale |-> readerByLocale, nil |-> FALSE],
          err |-> ""]
    ELSE NewLoopOverwrite(def, rs, i + 1,
                          (rs[i].Locale :> rs[i]) @@ readerByLocale,
                          Append(readers, rs[i]), Append(locales, rs[i].Locale))

RECURSIVE NewLoop(_, _, _, _, _, _)
\* the loop of New from the reader rs[i] on (rs is the argument bundle)
NewLoop(def, rs, i, readerByLocale, readers, locales) ==
    IF i > Len(rs)
    THEN [b |-> [locales |-> locales, readers |-> readers, defaultLocaleStr |-> def,
                 readerByLocale |-> readerByLocale, nil |-> FALSE],
          err |-> ""]
    ELSE IF rs[i].Locale \in DOMAIN readerByLocale
    THEN [b |-> NilBundle, err |-> ErrReaderConflict]
    ELSE NewLoop(def, rs, i + 1, readerByLocale @@ (rs[i].Locale :> rs[i]),
                 Append(readers, rs[i]), Append(locales, rs[i].Locale))

\* New without the test for an empty bundle
NewUnchecked(defaultLocale, rs) ==
    NewLoop(defaultLocale, rs, 1, <<>>, <<>>, <<>>)

\* New: [b, err]
New(defaultLocale, rs) ==
    IF Len(rs) < 1 THEN [b |-> NilBundle, err |-> ErrEmptyBundle]
    ELSE NewLoop(defaultLocale, rs, 1, <<>>, <<>>, <<>>)

\* the map lookup l.readerByLocale[key]: nil for a key that is not there
Lookup(l, key) ==
    IF key \in DOMAIN l.readerByLocale THEN l.readerByLocale[key] ELSE NilReader

\* Bundle.ForBase
ForBase(l, language) ==
    IF Lookup(l, language) # NilReader THEN Lookup(l, language)
    ELSE Lookup(l, l.defaultLocaleStr)

\* Bundle.Readers, Bundle.Locales
Readers(l) == l.readers
Locales(l) == l.locales

Bundling(def, args) ==
    [mode |-> "bundle", def |-> def, args |-> args, b |-> NilBundle, err |-> "",
     base |-> "", got |-> NilReader, step |-> "start"]

\* localize.New(def, args...)
CallNew ==
    /\ codec.mode = "bundle" /\ codec.step = "start"
    /\ codec' = [codec EXCEPT !.b = New(codec.def, codec.args).b,
                              !.err = New(codec.def, codec.args).err,
                              !.step = "new"]
    /\ UNCHANGED syncVars

\* Bundle.ForBase(base) on the bundle New returned
CallForBase ==
    /\ codec.mode = "bundle" /\ codec.step = "new" /\ codec.err = ""
    /\ \E base \in {"en", "de", "fr"} :
         codec' = [codec EXCEPT !.base = base, !.got = ForBase(codec.b, base),
                                !.step = "asked"]
    /\ UNCHANGED syncVars

\* the readers given to New: up to MaxReaders, numbered in argument order
ReaderLists ==
    {[i \in 1..Len(tags) |-> Reader(i, tags[i])] : tags \in SeqsUpTo(ReaderTags, MaxReaders)}

InitBundle ==
    /\ codec \in {Bundling(def, args) : def \in DefaultTags, args \in ReaderLists}
    /\ collection = [m \in {} |-> <<>>]
    /\ disk = [l \in {} |-> <<>>]
    /\ diskStart = disk
    /\ bundle = NoBundle
    /\ before = NoBundle
    /\ pc = "codec"
    /\ cur = ""
    /\ todoL = {}
    /\ todoM = {}
    /\ heap = NoHeap
    /\ opened = {}
    /\ run = 1
    /\ errMsg = ""

NextBundle == CallNew \/ CallForBase

SpecBundle == InitBundle /\ [][NextBundle]_vars

\* C25: New called with no readers returns ErrEmptyBundle and a nil bundle.
C25_EmptyBundle ==
    (codec.mode = "bundle" /\ codec.step = "new" /\ codec.args = <<>>) =>
        (codec.err = ErrEmptyBundle /\ codec.b = NilBundle)

\* C25 witness: New returned for a call without readers
C25_Witness ==
    /\ codec.mode = "bundle" /\ codec.step = "new" /\ codec.args = <<>>
    /\ codec.err # ""

\* two of the readers given to New report the same locale
Conflicting(args) ==
    \E i, j \in 1..Len(args) : i < j /\ args[i].Locale = args[j].Locale

\* C26: New returns ErrReaderConflict and a nil bundle whenever two readers
\* report the same locale; when all locales are distinct, Readers() and
\* Locales() list every reader and its locale in argument order.
C26_ConflictOrOrder ==
    (codec.mode = "bundle" /\ codec.step = "new" /\ codec.args # <<>>) =>
        IF Conflicting(codec.args)
        THEN codec.err = ErrReaderConflict /\ codec.b = NilBundle
        ELSE /\ codec.err = ""
             /\ Readers(codec.b) = codec.args
             /\ Locales(codec.b) = [i \in 1..Len(codec.args) |-> codec.args[i].Locale]

\* C26 witness: New refused three readers because the third repeats the
\* locale of the first
C26_Witness ==
    /\ codec.mode = "bundle" /\ codec.step = "new" /\ Len(codec.args) = 3
    /\ codec.args[1].Locale = codec.args[3].Locale
    /\ codec.args[1].Locale # codec.args[2].Locale
    /\ codec.err = ErrReaderConflict

\* the readers of the bundle whose Base() is base
ReadersOfBase(l, base) ==
    {l.readers[i] : i \in {j \in 1..Len(l.readers) : BaseOf(l.readers[j].Locale) = base}}

\* C27: ForBase(b) returns a reader of the bundle whose Base() is b whenever
\* the bundle holds one, also when the locale of that reader carries a region,
\* and the reader of the default locale only when the bundle holds no reader
\* for b.
C27_ForBase ==
    (codec.mode = "bundle" /\ codec.step = "asked") =>
        IF ReadersOfBase(codec.b, codec.base) # {}
        THEN codec.got \in ReadersOfBase(codec.b, codec.base)
        ELSE codec.got = Lookup(codec.b, codec.def)

\* the slot holds a directive: a directive that was read has at least one line
Present(slot) == Len(slot.Lines) >= 1

\* form (a): msgstr alone
SingularForm(m) ==
    /\ Present(m.Msgstr)
    /\ ~Present(m.MsgidPlural)
    /\ \A i \in 0..5 : ~Present(m.MsgstrN[i])

\* form (b): msgid_plural with msgstr[0] .. msgstr[n-1] and no other
PluralForm(m, n) ==
    /\ Present(m.MsgidPlural)
    /\ ~Present(m.Msgstr)
    /\ n >= 1
    /\ \A i \in 0..5 : Present(m.MsgstrN[i]) = (i < n)

\* C28: every message decode returns after the header has exactly one of the
\* two forms: (a) msgstr without msgid_plural and msgstr[N]; (b) msgid_plural
\* without msgstr and with msgstr[0] .. msgstr[K] without a gap, where K + 1
\* is nplurals of the Plural-Forms header.
C28_MsgstrForm ==
    (codec.mode # "bundle" /\ codec.step = "accepted") =>
        \A i \in 1..Len(codec.list) :
            SingularForm(codec.list[i]) # PluralForm(codec.list[i], codec.head.PluralForms.N)

\* C29: decode never panics, whatever the sequence of directives is, also
\* when a msgstr[N] with a digit N above 5 stands at any place of an entry:
\* every run of decode ends with a file or with an error value.
C29_NoPanic ==
    (codec.mode # "bundle" /\ codec.step \in {"accepted", "rejected"}) =>
        codec.err # ErrPanic

\* The file handles a run of `localize generate` holds for catalogs.  The
\* handle ParseBundle opens for catalog.<l>.po and the handle
\* updateTranslationCatalogs opens to write it are closed nowhere, so a
\* handle is open from its OpenFile on.  The handles a failed ParseBundle
\* opened before the file it could not decode are not counted.
ReadHandles ==
    IF pc = "parse" \/ (pc = "failed" /\ errMsg = ErrDecodingPO) THEN {}
    ELSE {<<"O_RDONLY", l>> : l \in DOMAIN disk}

WriteHandles == {<<"O_WRONLY", l>> : l \in opened}

OpenHandles == ReadHandles \cup WriteHandles

\* C30: every file handle opened to decode or encode a catalog is closed on
\* every path, so none is open when the run returns, with or without an
\* error.
C30_HandlesClosed ==
    (pc \in {"done", "failed"}) => OpenHandles = {}

\* C31: an obsolete entry whose msgid or msgstr is written as `#~ msgid ""`
\* followed by `#~ "..."` continuation lines is decoded into a message with
\* Obsolete = TRUE whose text has one element per continuation line, the
\* same elements the entry gives without the `#~ ` prefix.
C31_ObsoleteContinuation ==
    (codec.mode = "continued" /\ codec.step \in {"accepted", "rejected"}
       /\ codec.entries.obs = 1) =>
        /\ codec.step = "accepted"
        /\ Len(codec.list) = 2
        /\ codec.list[1].Obsolete
        /\ codec.list[1][codec.entries.slot].Lines = codec.entries.vals
        /\ DecodePO(codec.entries.plain).err = NoErr
        /\ \A s \in {"Msgid", "Msgstr"} :
             codec.list[1][s].Lines = DecodePO(codec.entries.plain).f.List[1][s].Lines

\* the same entry without the prefix is decoded with one element per
\* continuation line
PlainContinuationDecoded ==
    (codec.mode = "continued" /\ codec.step \in {"accepted", "rejected"}
       /\ codec.entries.obs = 0) =>
        /\ codec.step = "accepted"
        /\ Len(codec.list) = 2
        /\ codec.list[1][codec.entries.slot].Lines = codec.entries.vals

(***************************************************************************)
(* The encoder on one message: a File with the message is encoded and the  *)
(* lines written for the message are those after the header block.         *)
(***************************************************************************)
MaxComments == 2

\* comment values: empty, one line, two lines
CommentValues == {<<>>, <<"a">>, <<"a", "\n", "b">>}

EncodedComments ==
    SeqsUpTo({Comment(t, v) : t \in {CommentTypeTranslator, CommentTypeExtracted,
                                     CommentTypeReference, CommentTypeFlag},
                              v \in CommentValues}, MaxComments)

\* a message with the comments cs on msgid and the text lines on msgstr
EncodedMessage(obsolete, cs, lines) ==
    [ZeroMessage EXCEPT !.Obsolete = obsolete,
                        !.Msgid = Slot(1, cs, <<<<"a">>>>),
                        !.Msgstr = Slot(1, <<>>, lines)]

EncodedMessages ==
    {EncodedMessage(o, cs, ls) : o \in BOOLEAN, cs \in EncodedComments,
                                 ls \in {<<<<"x">>>>, <<<<"x">>, <<"y">>>>}}

Encoding(m) == [mode |-> "encode", m |-> m, out |-> <<>>, step |-> "start"]

\* Encoder.EncodePO on a File that holds m
EncodeMessage ==
    /\ codec.mode = "encode" /\ codec.step = "start"
    /\ codec' = [codec EXCEPT !.out = EncodePO(File(CatalogHead("de"), <<codec.m>>)),
                              !.step = "encoded"]
    /\ UNCHANGED syncVars

InitEncode ==
    /\ codec \in {Encoding(m) : m \in EncodedMessages}
    /\ collection = [m \in {} |-> <<>>]
    /\ disk = [l \in {} |-> <<>>]
    /\ diskStart = disk
    /\ bundle = NoBundle
    /\ before = NoBundle
    /\ pc = "codec"
    /\ cur = ""
    /\ todoL = {}
    /\ todoM = {}
    /\ heap = NoHeap
    /\ opened = {}
    /\ run = 1
    /\ errMsg = ""

NextEncode == EncodeMessage

SpecEncode == InitEncode /\ [][NextEncode]_vars

\* the lines of the output after the header block
MessageLines(out) ==
    SubSeq(out, Len(encodeHead(CatalogHead("de"))) + 1, Len(out))

\* C32: every line the encoder writes for an obsolete message starts with
\* `#~ `: each line of each comment, also of a comment whose value has
\* several lines, each directive line and each continuation line; no line of
\* a message that is not obsolete starts with `#~`.
C32_ObsoletePrefix ==
    (codec.mode = "encode" /\ codec.step = "encoded") =>
        \A i \in 1..Len(MessageLines(codec.out)) :
            (MessageLines(codec.out)[i].obs >= 1) = codec.m.Obsolete

\* the type the comment of a `#|` line of this kind has
PreviousType(kind) ==
    IF kind = "msgctxt" THEN CommentTypePreviousContext
    ELSE CommentTypePreviousUntranslated

\* C33: a `#|` line followed by ` msgctxt` is read as a PreviousContext
\* comment and one followed by ` msgid` as a PreviousUntranslated comment;
\* any other continuation is an error that names the two; the `#|` line
\* alone is consumed, so the comment or directive on the line after it is
\* read as well.
C33_PreviousComment ==
    (codec.mode = "previous" /\ codec.step \in {"accepted", "rejected"}) =>
        IF codec.entries.kind = "other"
        THEN codec.step = "rejected" /\ codec.err.Expected = "msgid or msgctxt"
        ELSE /\ codec.step = "accepted"
             /\ Len(codec.list) >= 1
             /\ codec.list[1].Msgid.Lines = <<<<"a">>>>
             /\ codec.list[1].Msgstr.Lines = <<<<"x">>>>
             /\ \E i \in 1..Len(codec.list[1].Msgid.Comments) :
                  codec.list[1].Msgid.Comments[i].Type = PreviousType(codec.entries.kind)
             /\ \A j \in 1..Len(codec.entries.post) :
                  \E i \in 1..Len(codec.list[1].Msgid.Comments) :
                      codec.list[1].Msgid.Comments[i].Type = codec.entries.post[j].t

\* the comments cs are in the order of their types
SortedByType(cs) ==
    \A i, j \in 1..Len(cs) : i < j => cs[i].Type <= cs[j].Type

\* every directive of the message m has its comments in the order of types
CommentsSorted(m) ==
    /\ \A s \in {"Msgctxt", "Msgid", "MsgidPlural", "Msgstr"} :
         SortedByType(m[s].Comments)
    /\ \A k \in 0..5 : SortedByType(m.MsgstrN[k].Comments)

\* C34: after the synchronization of a catalog each directive of each of
\* its entries, whether it was there before, was added or is obsolete, has
\* its comments in the order Translator, Extracted, Reference, Flag,
\* PreviousContext, PreviousUntranslated.
C34_CommentsSorted ==
    \A l \in opened :
        \A i \in 1..Len(bundle[l].List) : CommentsSorted(bundle[l].List[i])

\* the Span of each directive slot of m has zero length exactly when the
\* directive is absent
SlotSpans(m) ==
    /\ \A s \in {"Msgctxt", "Msgid", "MsgidPlural", "Msgstr"} :
         (m[s].Span = 0) = ~Present(m[s])
    /\ \A k \in 0..5 : (m.MsgstrN[k].Span = 0) = ~Present(m.MsgstrN[k])

\* C35: in every decoded message the Span of a directive slot has zero
\* length if and only if the directive is absent from the input, a directive
\* with an empty literal such as `msgstr ""` included among the present
\* ones, and the Span of the message itself is not zero.
C35_SpanPresence ==
    (codec.mode # "bundle" /\ codec.step = "accepted") =>
        \A i \in 1..Len(codec.list) :
            SlotSpans(codec.list[i]) /\ codec.list[i].Span # 0

\* the slots alone: violated by a directive with an empty literal
SlotSpansDecoded ==
    (codec.mode # "bundle" /\ codec.step = "accepted") =>
        \A i \in 1..Len(codec.list) : SlotSpans(codec.list[i])

\* C36: after the synchronization of a catalog every extracted message has
\* an entry that is not obsolete and whose msgctxt is the hash of the
\* message, also when the catalog held an obsolete entry with that hash.
C36_ExtractedPresent ==
    \A l \in opened :
        \A m \in DOMAIN collection :
            \E i \in 1..Len(bundle[l].List) :
                /\ ~bundle[l].List[i].Obsolete
                /\ String(bundle[l].List[i].Msgctxt.Lines) = m.Hash

\* C37: after the synchronization of a catalog no two of its entries that
\* are not obsolete have the same msgctxt, also when two different extracted
\* messages have the same hash.
C37_MsgctxtUnique ==
    \A l \in opened :
        \A i, j \in 1..Len(bundle[l].List) :
            (i < j /\ ~bundle[l].List[i].Obsolete /\ ~bundle[l].List[j].Obsolete) =>
                String(bundle[l].List[i].Msgctxt.Lines) #
                    String(bundle[l].List[j].Msgctxt.Lines)

\* the reference to every current position of hash h is among the comments
\* of entry e
UpdatePresent(e, h) == CurrentReferences(h) \subseteq Range(References(e))

\* no comment of entry e is the zero value
NoZeroComment(e) ==
    /\ \A s \in {"Msgctxt", "Msgid", "MsgidPlural", "Msgstr"} :
         \A i \in 1..Len(e[s].Comments) : e[s].Comments[i] # ZeroComment
    /\ \A k \in 0..5 :
         \A i \in 1..Len(e.MsgstrN[k].Comments) : e.MsgstrN[k].Comments[i] # ZeroComment

\* an entry of the existing catalog that is extracted has the references of
\* the current positions in the list that is encoded
UpdatesEncoded ==
    \A l \in opened :
      \A i \in 1..Len(before[l].List) :
        String(before[l].List[i].Msgctxt.Lines) \in CollHashes(collection) =>
            UpdatePresent(bundle[l].List[i], String(before[l].List[i].Msgctxt.Lines))

\* C38: the synchronized catalog does not depend on the order in which the
\* extracted messages are handled: the reference comments updated on an
\* existing entry are in the message list that is encoded, and no entry has
\* a zero-valued comment, also when entries were appended to the list, and
\* the list was reallocated, earlier in the same pass.
C38_OrderIndependent ==
    /\ UpdatesEncoded
    /\ \A l \in opened :
         \A i \in 1..Len(bundle[l].List) : NoZeroComment(bundle[l].List[i])

(***************************************************************************)
(* runGenerate from MakePO to writeTranslationTemplate.  FilePO holds a    *)
(* pointer to a File, so the `po` that writeSourceCatalog and              *)
(* writeTranslationTemplate get by value is one File: codec.po.            *)
(***************************************************************************)
MaxHeadLines == 2

\* the head comments both writers append
GeneratedNotice ==
    <<Comment(0, <<"generated by github.com/romshark/localize/cmd/localize. DO NOT EDIT.">>),
      Comment(0, <<>>),
      Comment(0, <<"Any changes made to this file will be overwritten">>),
      Comment(0, <<"as soon as localize is executed again.">>)>>

\* the gettext formula of the plural forms of a locale
GettextFormula(l) == IF l = "pl" THEN <<"n == 1 ? 0 : 1">> ELSE <<"n != 1">>

\* Collection.MakePO: the lines of head.txt become translator comments of
\* the head; order is the order in which the map of messages is iterated
MakePO(headTxt, l, coll, order) ==
    File([ZeroHead EXCEPT
            !.Language = <<l>>,
            !.MIMEVersion = <<"1.0">>,
            !.ContentType = <<"text/plain; charset=UTF-8">>,
            !.ContentTransferEncoding = <<"8bit">>,
            !.PluralForms = [N |-> 0, Expression |-> GettextFormula(l)],
            !.HeadComments = [i \in 1..Len(headTxt) |->
                                Comment(CommentTypeTranslator, headTxt[i])]],
         [i \in 1..Len(order) |->
            MsgFromGettextMessage(ByTagOrBase(l).forms, order[i], [Pos |-> coll[order[i]]])])

Generating(po) ==
    [mode |-> "generate", po0 |-> po, po |-> po, pot |-> NoFile,
     source |-> <<>>, template |-> <<>>, step |-> "made"]

\* writeSourceCatalog(conf, poEncoder, po)
WriteSourceCatalog ==
    /\ codec.mode = "generate" /\ codec.step = "made"
    /\ LET po == [codec.po EXCEPT !.Head.HeadComments = @ \o GeneratedNotice]
       IN  codec' = [codec EXCEPT !.po = po,
                                  !.source = EncodePO(po), !.step = "source"]
    /\ UNCHANGED syncVars

\* writeTranslationTemplate(conf, poEncoder, po)
WriteTranslationTemplate ==
    /\ codec.mode = "generate" /\ codec.step = "source"
    /\ LET pot == [MakePOT(codec.po) EXCEPT !.Head.HeadComments = @ \o GeneratedNotice]
       IN  codec' = [codec EXCEPT !.pot = pot, !.template = EncodePOT(pot),
                                  !.step = "template"]
    /\ UNCHANGED syncVars

\* the FilePO values MakePO returns for the contents of head.txt, the
\* collections and the orders of iteration
GeneratedFiles ==
    UNION {{MakePO(headTxt, "de", coll, order) :
              headTxt \in SeqsUpTo({<<"a">>, <<"b">>}, MaxHeadLines),
              order \in SetToSeqs(DOMAIN coll)} :
           coll \in Collections}

InitGenerate ==
    /\ codec \in {Generating(po) : po \in GeneratedFiles}
    /\ collection = [m \in {} |-> <<>>]
    /\ disk = [l \in {} |-> <<>>]
    /\ diskStart = disk
    /\ bundle = NoBundle
    /\ before = NoBundle
    /\ pc = "codec"
    /\ cur = ""
    /\ todoL = {}
    /\ todoM = {}
    /\ heap = NoHeap
    /\ opened = {}
    /\ run = 1
    /\ errMsg = ""

NextGenerate == WriteSourceCatalog \/ WriteTranslationTemplate

SpecGenerate == InitGenerate /\ [][NextGenerate]_vars

\* the number of comments among cs that are the first line of the notice
NoticeCount(cs) == Len(SelectSeq(cs, LAMBDA c : c = GeneratedNotice[1]))

\* the head comments of an encoded file: the comment lines in front of the
\* first directive
RECURSIVE WrittenHeadComments(_)
WrittenHeadComments(out) ==
    IF out = <<>> \/ Head(out).k # "com" THEN <<>>
    ELSE <<Comment(0, Head(out).v)>> \o WrittenHeadComments(Tail(out))

\* C39: writing the source catalog does not change the FilePO the template
\* is made from: the head comments of the FilePO are the same before and
\* after writeSourceCatalog, and the head comments of the catalog.pot that
\* writeTranslationTemplate writes hold the generated notice exactly once.
C39_SourceWriteFrame ==
    /\ (codec.mode = "generate" /\ codec.step \in {"source", "template"}) =>
          codec.po.Head.HeadComments = codec.po0.Head.HeadComments
    /\ (codec.mode = "generate" /\ codec.step = "template") =>
          NoticeCount(WrittenHeadComments(codec.template)) = 1

\* the part of C39 about catalog.pot alone
NoticeOnceInTemplate ==
    (codec.mode = "generate" /\ codec.step = "template") =>
        NoticeCount(WrittenHeadComments(codec.template)) = 1

============================================================================
